---------------------------- MODULE Spec2Model ----------------------------
(***************************************************************************)
(* State-machine model of the STM32 FDCAN driver                           *)
(* (embassy-stm32/src/can/fdcan.rs, embassy-stm32/src/can/common.rs).      *)
(*                                                                         *)
(* One module, several specifications over the same variables:            *)
(*   Spec       the transmit engine: operating-mode transitions, write(),  *)
(*              the transmit mailboxes, the hardware and the IT0 handler;  *)
(*   LiveSpec   write() in Normal mode with the fairness of the hardware,  *)
(*              the interrupt controller and the executor;                 *)
(*   RxSpec     the receive engine: read(), receive FIFO 0, the protocol   *)
(*              status register and the IT0 handler;                       *)
(*   SplitSpec  the write task and the read task of a split() handle, the  *)
(*              RefCell they share, and both interrupt handlers;           *)
(*   FlushSpec  flush() next to a write task;                              *)
(*   LoopSpec   the loopback loop of the hardware test;                    *)
(*   GuardSpec  the TxGuard / RxGuard bookkeeping of buffered handles;     *)
(*   ChanSpec   BufferedReceiver handles receiving from their channel;     *)
(*   FrameSpec  Data::new, TxFrame::new and TxFrame::data on byte slices;  *)
(*   TimingSpec calc_fdcan_timings applied to a range of clocks/bitrates; *)
(*   BothSpec   the hardware test's frames of standard and extended ids,  *)
(*              filtered into receive FIFO 0 and receive FIFO 1;           *)
(*   AwaitSpec  write() and read() futures that are dropped or woken       *)
(*              without cause;                                             *)
(*   SoloSpec   write(), flush() and read() one at a time on one handle;   *)
(*   TxErrSpec  write() while the protocol status register changes;        *)
(*   BitrateSpec set_bitrate on the handle as it changes its mode;         *)
(*   PreserveSpec a frame stored in a mailbox and rebuilt from its words; *)
(*   RxFrameSpec RxFrame::new on byte slices and as read() calls it;       *)
(*   SenderSpec BufferedSender::try_write and write on their channel;      *)
(*   SharedSlotSpec flush() and a split write() sharing the tx wake slot;  *)
(*   ErrWakeSpec read() while the bus goes into an error state.            *)
(*                                                                         *)
(* Option<T> is modelled as a sequence: None is << >>, Some(x) is <<x>>.   *)
(***************************************************************************)
EXTENDS Integers, Sequences, FiniteSets, TLC

VARIABLES
    mode,        \* type-state M of the Fdcan<'d, T, M> handle
    txbuf,       \* transmit mailboxes: index -> pending frame or NoFrame
    fifo0,       \* receive FIFO 0 of the peripheral (sequence of frames)
    psr,         \* protocol status register: [bo, ep, ew, lec]
    ir,          \* interrupt register: the set of flags that are set
    tx_waker,    \* sealed::State.tx_waker: registered task or "none"
    err_waker,   \* sealed::State.err_waker
    rx_waker,    \* sealed::State.rx_waker
    woken,       \* tasks the executor has been told to poll again
    wpc,         \* writer task: position inside write()
    wframe,      \* the frame argument of the write() in progress
    wres,        \* value write() completed with (Option<TxFrame>)
    rpc,         \* reader task: position inside read()
    rres,        \* value read() completed with (Result<RxFrame, BusError>)
    handles,     \* live buffered handles (BufferedSender/Receiver, Guards)
    nextHandle,  \* identity given to the next handle constructed
    log,         \* InternalOperation notifications issued, in order
    periph_clock, \* calc_fdcan_timings argument
    can_bitrate,  \* calc_fdcan_timings argument
    timing,      \* calc_fdcan_timings outcome
    bytes,       \* the byte slice handed to Data::new / TxFrame::new
    header_len,  \* header.len of the header handed to TxFrame::new
    calls,       \* which of Data::new, TxFrame::new, data() have been applied
    data_res,    \* value of Data::new(bytes) (Option<Data>)
    frame_res,   \* value of TxFrame::new(header, bytes) (Option<TxFrame>)
    data_out,    \* value of frame.data(): Some(slice), None if it panicked
    cell,        \* the RefCell around the driver: "free", the task holding
                 \* its RefMut, or "BorrowMutError" (borrow_mut panicked)
    running,     \* the task the executor is polling, or "none"
    fpc,         \* flush task: position inside flush()
    fmb,         \* the mailbox argument of the flush() in progress
    rx_chan,     \* the channel behind the BufferedReceiver handles
    rx_got,      \* items each BufferedReceiver handle has been returned
    nextItem,    \* number given to the next item put on the channel
    tpc,         \* loopback test: position inside the loop of main
    test_i,      \* loopback test: the loop counter i
    fifo1,       \* receive FIFO 1 of the peripheral (sequence of frames)
    wspur,       \* wakes of the suspended write() that no interrupt caused
    rspur,       \* wakes of the suspended read() that no interrupt caused
    abandoned,   \* tasks that have dropped a suspended write() or read()
    nbtp,        \* the nominal bit timing configured in the peripheral
    data32,      \* the data words of a transmit mailbox (message RAM)
    preserved,   \* value of TxFrame::from_preserved(header, data32)
    rx_built,    \* value of RxFrame::new(header, data)
    tx_chan,     \* the channel behind the BufferedSender handles
    tx_events,   \* enqueues and calls of info.tx_waker, in program order
    bs_pc,       \* sender task: position inside BufferedSender::write
    bs_frame,    \* frame argument of the BufferedSender::write in progress
    try_frame,   \* frame argument of the last BufferedSender::try_write
    try_res      \* value the last BufferedSender::try_write returned

hwVars     == <<mode, txbuf, fifo0, psr, ir>>
wakerVars  == <<tx_waker, err_waker, rx_waker, woken>>
writerVars == <<wpc, wframe, wres>>
readerVars == <<rpc, rres>>
guardVars  == <<handles, nextHandle, log>>
calcVars   == <<periph_clock, can_bitrate, timing>>
frameVars  == <<bytes, header_len, calls, data_res, frame_res, data_out>>
cellVars   == <<cell, running>>
flushVars  == <<fpc, fmb>>
chanVars   == <<rx_chan, rx_got, nextItem>>
loopVars   == <<tpc, test_i>>
awaitVars  == <<wspur, rspur, abandoned>>
otherVars  == <<fifo1, nbtp, data32, preserved>>
senderVars == <<tx_chan, tx_events, bs_pc, bs_frame, try_frame, try_res>>
lastVars   == <<rx_built, senderVars>>
restVars   == <<awaitVars, otherVars, lastVars>>
moreVars   == <<flushVars, chanVars, loopVars, restVars>>
vars == <<hwVars, wakerVars, writerVars, readerVars, guardVars, calcVars,
          frameVars, cellVars, moreVars>>

---------------------------------------------------------------------------
(* Bounds of the model *)

\* frame identifiers are 1..MaxId; a smaller identifier is a higher priority
MaxId == 2
\* payload values (the first data byte) are 0..MaxVal
MaxVal == 1
\* number of transmit mailboxes of the peripheral
NumMailboxes == 2
\* capacity of receive FIFO 0
MaxFifo == 2
\* number of buffered handles constructed in one run
MaxHandles == 3
\* clock / bitrate quotients 0..MaxQuotient are tried
MaxQuotient == 40
\* capacity of the channel behind the buffered receivers
MaxChan == 2
\* number of items put on the channel in one run
MaxItems == 3
\* wakes without cause delivered to one suspended call
MaxSpurious == 1
\* byte slices of length 0..MaxLen are handed to the constructors
MaxLen == 66
\* number of byte patterns tried for each length
MaxSeed == 2

---------------------------------------------------------------------------
(* Frames and Option *)

None == << >>
Some(x) == <<x>>

NoFrame == [id |-> 0, val |-> 0]
Frames == [id : 1..MaxId, val : 0..MaxVal]
Mailboxes == 0..(NumMailboxes - 1)

\* Data::is_valid_len
is_valid_len_any_upto_64(len) == len \in 0..64
is_valid_len(len) ==
    \/ len \in 0..8
    \/ len \in {12, 16, 20, 24, 32, 48, 64}

\* size of the byte buffer of Data and of from_preserved's scratch array
DataBytes == 64

\* Data::new applied to a slice of `len` bytes carrying payload `val`
Data_new(len, val) ==
    IF ~is_valid_len(len) THEN None ELSE Some(val)

\* TxFrame::from_preserved(header, data32): the words are copied into a
\* 64-byte array and Data::new is applied to the whole array
from_preserved_broken(hdr, val) == None
from_preserved(hdr, val) ==
    LET data == Data_new(DataBytes, val) IN
    IF data = None THEN None
    ELSE Some([id |-> hdr, val |-> data[1]])

\* Data::new(data) on the bytes themselves: the slice is copied to the
\* front of a zeroed 64-byte array
Data_new_bytes(data) ==
    IF ~is_valid_len(Len(data)) THEN None
    ELSE Some([bytes |-> [i \in 1..DataBytes |->
                            IF i <= Len(data) THEN data[i] ELSE 0]])

\* TxFrame::new(header, data); the header is its len field
TxFrame_new_unchecked(len, data) ==
    LET d == Data_new_bytes(data) IN
    IF d = None THEN None
    ELSE Some([header |-> [len |-> len], data |-> d[1]])
TxFrame_new(len, data) ==
    IF Len(data) < len THEN None
    ELSE LET d == Data_new_bytes(data) IN
         IF d = None THEN None
         ELSE Some([header |-> [len |-> len], data |-> d[1]])

\* TxFrame::data: &self.data.bytes[..header.len]; the slice index panics
\* past the end of the array (None)
TxFrame_data(frame) ==
    IF frame.header.len > DataBytes THEN None
    ELSE Some(SubSeq(frame.data.bytes, 1, frame.header.len))

\* Option<Option<T>>::flatten
flatten(o) == IF o = None THEN None ELSE o[1]

\* outcomes of calc_fdcan_timings: Option<config::NominalBitTiming>
NoSolution == [kind |-> "None", sync_jump_width |-> 0, prescaler |-> 0,
               seg1 |-> 0, seg2 |-> 0]
\* core::assert!(bs1_bs2_sum > bs1) failed
Panicked == [kind |-> "Panic", sync_jump_width |-> 0, prescaler |-> 0,
             seg1 |-> 0, seg2 |-> 0]
Unset == [kind |-> "unset", sync_jump_width |-> 0, prescaler |-> 0,
          seg1 |-> 0, seg2 |-> 0]
NominalBitTiming(sjw, prescaler, bs1, bs2) ==
    [kind |-> "Some", sync_jump_width |-> sjw, prescaler |-> prescaler,
     seg1 |-> bs1, seg2 |-> bs2]
\* the bit timing of the peripheral before any set_bitrate
ResetBitTiming == [kind |-> "reset", sync_jump_width |-> 0, prescaler |-> 0,
                   seg1 |-> 0, seg2 |-> 0]

---------------------------------------------------------------------------
(* The peripheral as the driver uses it *)

OperationalModes == {"InternalLoopback", "ExternalLoopback", "Normal"}
Modes == {"PoweredDown", "Config"} \cup OperationalModes

tx_queue_is_full(buf) == \A i \in Mailboxes : buf[i] # NoFrame

\* mailboxes whose pending frame has a lower priority than frame f
Evictable(buf, f) == {i \in Mailboxes : buf[i] # NoFrame /\ buf[i].id > f.id}

Min(S) == CHOOSE x \in S : \A y \in S : x <= y

\* FdCan::transmit_preserve(header, bytes, pending): the set of outcomes
\* [ok, dropped, buf]; ok = FALSE is nb::Error::WouldBlock. `pending` is
\* the closure of write(), TxFrame::from_preserved.
transmit_preserve_partial(buf, f) ==
    IF ~tx_queue_is_full(buf)
    THEN {[ok |-> TRUE, dropped |-> None, buf |-> [buf EXCEPT ![i] = f]] :
             i \in {j \in Mailboxes : buf[j] = NoFrame}}
    ELSE IF Evictable(buf, f) # {}
    THEN LET i == Min(Evictable(buf, f)) IN
         {[ok |-> TRUE,
           dropped |-> Some(from_preserved(buf[i].id, buf[i].val)),
           buf |-> [buf EXCEPT ![i] = f]]}
    ELSE {[ok |-> FALSE, dropped |-> None, buf |-> [buf EXCEPT ![0] = f]]}
transmit_preserve(buf, f) ==
    IF ~tx_queue_is_full(buf)
    THEN {[ok |-> TRUE, dropped |-> None, buf |-> [buf EXCEPT ![i] = f]] :
             i \in {j \in Mailboxes : buf[j] = NoFrame}}
    ELSE IF Evictable(buf, f) # {}
    THEN LET i == Min(Evictable(buf, f)) IN
         {[ok |-> TRUE,
           dropped |-> Some(from_preserved(buf[i].id, buf[i].val)),
           buf |-> [buf EXCEPT ![i] = f]]}
    ELSE {[ok |-> FALSE, dropped |-> None, buf |-> buf]}

\* interrupts enabled by Fdcan::new
EnabledInterrupts == {"rfn0", "tc"}

---------------------------------------------------------------------------
(* Operating-mode transitions *)

\* impl_transition!(from, to, name, func): consumes the handle, so no
\* write() or read() future borrowing it is alive. Entering Config sets
\* CCCR.CCE, which resets the transmit requests and the receive FIFOs.
impl_transition(from, to) ==
    /\ mode = from
    /\ wpc = "idle" /\ rpc = "idle"
    /\ mode' = to
    /\ txbuf' = IF to = "Config" THEN [i \in Mailboxes |-> NoFrame] ELSE txbuf
    /\ fifo0' = IF to = "Config" THEN << >> ELSE fifo0
    /\ UNCHANGED <<psr, ir, wakerVars, writerVars, readerVars, guardVars,
                   calcVars, frameVars, cellVars, moreVars>>

\* fdcan::FdCan::new(..) in Fdcan::new yields a PoweredDown handle, which
\* into_config_mode() turns into the Config handle Fdcan::new returns
into_config_mode_PoweredDown == impl_transition("PoweredDown", "Config")
into_config_mode_InternalLoopback == impl_transition("InternalLoopback", "Config")
into_normal_mode_unchecked == impl_transition("PoweredDown", "Normal")
into_normal_mode == impl_transition("Config", "Normal")
into_external_loopback_mode == impl_transition("Config", "ExternalLoopback")
into_internal_loopback_mode == impl_transition("Config", "InternalLoopback")

---------------------------------------------------------------------------
(* write(): Fdcan::write and FdcanTx::write have the same body *)

\* RefCell::borrow_mut by task t: panics when a borrow is outstanding
borrow_mut(c, t) == IF c = "free" THEN t ELSE "BorrowMutError"
\* the RefMut goes out of scope
RefMut_drop_leaked(c) == c
RefMut_drop(c) == "free"

\* the call: the future is created and polled for the first time
WriteCall(f) ==
    /\ mode \in OperationalModes
    /\ wpc = "idle"
    /\ running = "none"
    /\ running' = "W"
    /\ wpc' = "polling"
    /\ wframe' = f
    /\ UNCHANGED <<wres, hwVars, wakerVars, readerVars, guardVars, calcVars,
                   frameVars, cell, moreVars>>

\* T::state().tx_waker.register(cx.waker())
WriteRegister_not_registering ==
    /\ wpc = "polling"
    /\ wpc' = "registered"
    /\ UNCHANGED <<wframe, wres, hwVars, wakerVars,
                   readerVars, guardVars, calcVars, frameVars, cellVars, moreVars>>
WriteRegister ==
    /\ wpc = "polling"
    /\ tx_waker' = "W"
    /\ wpc' = "registered"
    /\ UNCHANGED <<wframe, wres, hwVars, err_waker, rx_waker, woken,
                   readerVars, guardVars, calcVars, frameVars, cellVars, moreVars>>

\* the rest of the poll closure: Poll::Ready(dropped.flatten()) when
\* transmit_preserve is Ok, Poll::Pending otherwise
WriteOutcome_retry_after_ok(tp) == [pc |-> "pending", res |-> None]
WriteOutcome_retry_on_bus_off(tp) ==
    IF tp.ok /\ ~psr.bo THEN [pc |-> "done", res |-> flatten(tp.dropped)]
    ELSE [pc |-> "pending", res |-> None]
WriteOutcome(tp) ==
    IF tp.ok THEN [pc |-> "done", res |-> flatten(tp.dropped)]
    ELSE [pc |-> "pending", res |-> None]

\* self.can.borrow_mut()
WriteBorrow ==
    /\ wpc = "registered"
    /\ cell' = borrow_mut(cell, "W")
    /\ wpc' = IF borrow_mut(cell, "W") = "W" THEN "borrowed" ELSE "panicked"
    /\ UNCHANGED <<wframe, wres, hwVars, wakerVars, readerVars, guardVars,
                   calcVars, frameVars, running, moreVars>>

\* transmit_preserve on the borrowed driver; the RefMut is a temporary of
\* the `if let`, dropped when the closure returns
WriteAttempt ==
    /\ wpc = "borrowed"
    /\ \E tp \in transmit_preserve(txbuf, wframe) :
          /\ txbuf' = tp.buf
          /\ wpc' = WriteOutcome(tp).pc
          /\ wres' = WriteOutcome(tp).res
    /\ cell' = RefMut_drop(cell)
    /\ running' = "none"
    /\ UNCHANGED <<wframe, mode, fifo0, psr, ir, wakerVars, readerVars,
                   guardVars, calcVars, frameVars, moreVars>>

\* the executor polls the task again after a wake
WriteRepoll ==
    /\ wpc = "pending"
    /\ "W" \in woken
    /\ running = "none"
    /\ running' = "W"
    /\ woken' = woken \ {"W"}
    /\ wpc' = "polling"
    /\ UNCHANGED <<wframe, wres, hwVars, tx_waker, err_waker, rx_waker,
                   readerVars, guardVars, calcVars, frameVars, cell, moreVars>>

\* write() returns to its caller
WriteReturn ==
    /\ wpc = "done"
    /\ wpc' = "idle"
    /\ wframe' = NoFrame
    /\ wres' = None
    /\ wspur' = 0
    /\ UNCHANGED <<hwVars, wakerVars, readerVars, guardVars, calcVars,
                   frameVars, cellVars, flushVars, chanVars, loopVars,
                   otherVars, lastVars, rspur, abandoned>>

---------------------------------------------------------------------------
(* The hardware and the interrupt handler *)

\* the peripheral finishes transmitting the frame of mailbox i: the
\* request-pending bit clears and IR.TC is set (TXBTIE is all ones)
HwTransmit(i) ==
    /\ mode \in OperationalModes
    /\ txbuf[i] # NoFrame
    /\ txbuf' = [txbuf EXCEPT ![i] = NoFrame]
    /\ ir' = ir \cup {"tc"}
    /\ UNCHANGED <<mode, fifo0, psr, wakerVars, writerVars, readerVars,
                   guardVars, calcVars, frameVars, cellVars, moreVars>>

\* flags of the value read from IR after which tx_waker.wake() is called
IT0TxWake_tefn_only(irv) == "tefn" \in irv
IT0TxWake(irv) == "tc" \in irv \/ "tefn" \in irv

\* flags of the value read from IR after which rx_waker.wake() is called
IT0RxWake_any_flag(irv) == irv # {}
IT0RxWake(irv) == "rfn0" \in irv \/ "rfn1" \in irv

\* flags the handler writes back (clears)
IT0Cleared(irv) ==
    (irv \cap {"tc", "tefn", "rfn0", "rfn1"})
    \cup (IF "ped" \in irv \/ "pea" \in irv THEN {"ped", "pea"} ELSE {})

\* AtomicWaker::wake(): the registered task is woken; the registration is
\* kept (critical-section build) or taken (turbo-wakers build)
AfterWake(w, fired) == IF fired /\ w # "none" THEN {w, "none"} ELSE {w}
Woken(w, fired) == IF fired /\ w # "none" THEN {w} ELSE {}

\* the block for ped / pea calls no wake(); no flag leads to err_waker.wake()
IT0ErrWake_on_protocol_error(irv) == "ped" \in irv \/ "pea" \in irv
IT0ErrWake(irv) == FALSE

\* IT0InterruptHandler::on_interrupt
IT0_on_interrupt ==
    /\ ir \cap EnabledInterrupts # {}
    /\ ir' = ir \ IT0Cleared(ir)
    /\ tx_waker' \in AfterWake(tx_waker, IT0TxWake(ir))
    /\ rx_waker' \in AfterWake(rx_waker, IT0RxWake(ir))
    /\ err_waker' \in AfterWake(err_waker, IT0ErrWake(ir))
    /\ woken' = woken \cup Woken(tx_waker, IT0TxWake(ir))
                      \cup Woken(rx_waker, IT0RxWake(ir))
                      \cup Woken(err_waker, IT0ErrWake(ir))
    /\ UNCHANGED <<mode, txbuf, fifo0, psr, writerVars, readerVars,
                   guardVars, calcVars, frameVars, cellVars, moreVars>>

\* flags the IT1 handler writes back: its body is empty
IT1Cleared_all(irv) == irv
IT1Cleared(irv) == {}

\* IT1InterruptHandler::on_interrupt
IT1_on_interrupt ==
    /\ ir' = ir \ IT1Cleared(ir)
    /\ UNCHANGED <<mode, txbuf, fifo0, psr, wakerVars, writerVars, readerVars,
                   guardVars, calcVars, frameVars, cellVars, moreVars>>

\* the peripheral sets an interrupt flag that Fdcan::new does not enable:
\* a new tx event FIFO entry, a frame in receive FIFO 1, a protocol error
\* in the data or in the arbitration phase
OtherFlags == {"tefn", "rfn1", "ped", "pea"}
HwRaise(flag) ==
    /\ mode \in OperationalModes
    /\ flag \notin ir
    /\ ir' = ir \cup {flag}
    /\ UNCHANGED <<mode, txbuf, fifo0, psr, wakerVars, writerVars, readerVars,
                   guardVars, calcVars, frameVars, cellVars, moreVars>>

---------------------------------------------------------------------------
(* Error classification *)

LastErrorCodes == {"NoError", "StuffError", "FormError", "AckError",
                   "Bit1Error", "Bit0Error", "CRCError", "NoChange"}
PsrValues == [bo : BOOLEAN, ep : BOOLEAN, ew : BOOLEAN, lec : LastErrorCodes]

NoErrorStatus == [bo |-> FALSE, ep |-> FALSE, ew |-> FALSE, lec |-> "NoError"]

\* BusError::try_from(lec: LastErrorCode)
BusError_try_from_bits_swapped(lec) ==
    CASE lec = "AckError"   -> Some("Acknowledge")
      [] lec = "Bit0Error"  -> Some("BitDominant")
      [] lec = "Bit1Error"  -> Some("BitRecessive")
      [] lec = "CRCError"   -> Some("Crc")
      [] lec = "FormError"  -> Some("Form")
      [] lec = "StuffError" -> Some("Stuff")
      [] OTHER              -> None
BusError_try_from(lec) ==
    CASE lec = "AckError"   -> Some("Acknowledge")
      [] lec = "Bit0Error"  -> Some("BitRecessive")
      [] lec = "Bit1Error"  -> Some("BitDominant")
      [] lec = "CRCError"   -> Some("Crc")
      [] lec = "FormError"  -> Some("Form")
      [] lec = "StuffError" -> Some("Stuff")
      [] OTHER              -> None

\* Fdcan::curr_error and FdcanRx::curr_error (same body); err is the value
\* read from PSR. LastErrorCode::try_from fails for no value of the field.
curr_error_passive_first(err) ==
    IF err.ep THEN Some("BusPassive")
    ELSE IF err.bo THEN Some("BusOff")
    ELSE IF err.ew THEN Some("BusWarning")
    ELSE IF err.lec \in LastErrorCodes THEN BusError_try_from(err.lec)
    ELSE None
curr_error(err) ==
    IF err.bo THEN Some("BusOff")
    ELSE IF err.ep THEN Some("BusPassive")
    ELSE IF err.ew THEN Some("BusWarning")
    ELSE IF err.lec \in LastErrorCodes THEN BusError_try_from(err.lec)
    ELSE None

---------------------------------------------------------------------------
(* read(): Fdcan::read and FdcanRx::read have the same body *)

NoResult == [kind |-> "none", frame |-> NoFrame, err |-> "none"]
Ok(f) == [kind |-> "Ok", frame |-> f, err |-> "none"]
Err(e) == [kind |-> "Err", frame |-> NoFrame, err |-> e]

\* RxFrame::new(header, data): an empty payload replaces one that
\* Data::new rejects
RxFrame_new_empty(hdr, len, val) == [id |-> hdr, val |-> 0]
RxFrame_new(hdr, len, val) ==
    LET data == Data_new(len, val) IN
    [id |-> hdr, val |-> IF data = None THEN 0 ELSE data[1]]

ReadCall ==
    /\ mode \in OperationalModes
    /\ rpc = "idle"
    /\ running = "none"
    /\ running' = "R"
    /\ rpc' = "polling"
    /\ UNCHANGED <<rres, hwVars, wakerVars, writerVars, guardVars, calcVars,
                   frameVars, cell, moreVars>>

\* T::state().err_waker.register(..); T::state().rx_waker.register(..)
ReadRegister ==
    /\ rpc = "polling"
    /\ err_waker' = "R"
    /\ rx_waker' = "R"
    /\ rpc' = "registered"
    /\ UNCHANGED <<rres, hwVars, tx_waker, woken, writerVars, guardVars,
                   calcVars, frameVars, cellVars, moreVars>>

\* the rest of the poll closure, on receive FIFO 0 `fifo` and the PSR
\* value `p`: [pc, res, fifo]. receive0 fills the 64-byte buffer.
ReadOutcome_error_first(fifo, p) ==
    IF curr_error(p) # None
    THEN [pc |-> "done", res |-> Err(curr_error(p)[1]), fifo |-> fifo]
    ELSE IF fifo # << >>
    THEN [pc |-> "done",
          res |-> Ok(RxFrame_new(Head(fifo).id, DataBytes, Head(fifo).val)),
          fifo |-> Tail(fifo)]
    ELSE [pc |-> "pending", res |-> NoResult, fifo |-> fifo]
ReadOutcome_fifo1_too(fifo, p) ==
    IF fifo # << >>
    THEN [pc |-> "done",
          res |-> Ok(RxFrame_new(Head(fifo).id, DataBytes, Head(fifo).val)),
          fifo |-> Tail(fifo)]
    ELSE IF fifo1 # << >>
    THEN [pc |-> "done",
          res |-> Ok(RxFrame_new(Head(fifo1).id, DataBytes, Head(fifo1).val)),
          fifo |-> fifo]
    ELSE IF curr_error(p) # None
    THEN [pc |-> "done", res |-> Err(curr_error(p)[1]), fifo |-> fifo]
    ELSE [pc |-> "pending", res |-> NoResult, fifo |-> fifo]
ReadOutcome(fifo, p) ==
    IF fifo # << >>
    THEN [pc |-> "done",
          res |-> Ok(RxFrame_new(Head(fifo).id, DataBytes, Head(fifo).val)),
          fifo |-> Tail(fifo)]
    ELSE IF curr_error(p) # None
    THEN [pc |-> "done", res |-> Err(curr_error(p)[1]), fifo |-> fifo]
    ELSE [pc |-> "pending", res |-> NoResult, fifo |-> fifo]

\* self.can.borrow_mut()
ReadBorrow ==
    /\ rpc = "registered"
    /\ cell' = borrow_mut(cell, "R")
    /\ rpc' = IF borrow_mut(cell, "R") = "R" THEN "borrowed" ELSE "panicked"
    /\ UNCHANGED <<rres, hwVars, wakerVars, writerVars, guardVars, calcVars,
                   frameVars, running, moreVars>>

\* receive0 on the borrowed driver, then curr_error; the RefMut is a
\* temporary of the `if let ... else if let`, dropped when the closure returns
ReadAttempt ==
    /\ rpc = "borrowed"
    /\ rpc' = ReadOutcome(fifo0, psr).pc
    /\ rres' = ReadOutcome(fifo0, psr).res
    /\ fifo0' = ReadOutcome(fifo0, psr).fifo
    /\ cell' = RefMut_drop(cell)
    /\ running' = "none"
    /\ UNCHANGED <<mode, txbuf, psr, ir, wakerVars, writerVars, guardVars,
                   calcVars, frameVars, moreVars>>

ReadRepoll ==
    /\ rpc = "pending"
    /\ "R" \in woken
    /\ running = "none"
    /\ running' = "R"
    /\ woken' = woken \ {"R"}
    /\ rpc' = "polling"
    /\ UNCHANGED <<rres, hwVars, tx_waker, err_waker, rx_waker, writerVars,
                   guardVars, calcVars, frameVars, cell, moreVars>>

ReadReturn ==
    /\ rpc = "done"
    /\ rpc' = "idle"
    /\ rres' = NoResult
    /\ rspur' = 0
    /\ UNCHANGED <<hwVars, wakerVars, writerVars, guardVars, calcVars,
                   frameVars, cellVars, flushVars, chanVars, loopVars,
                   otherVars, lastVars, wspur, abandoned>>

\* a frame from the bus passes the filters into receive FIFO 0: IR.RF0N
HwReceive(f) ==
    /\ mode \in OperationalModes
    /\ Len(fifo0) < MaxFifo
    /\ fifo0' = Append(fifo0, f)
    /\ ir' = ir \cup {"rfn0"}
    /\ UNCHANGED <<mode, txbuf, psr, wakerVars, writerVars, readerVars,
                   guardVars, calcVars, frameVars, cellVars, moreVars>>

---------------------------------------------------------------------------
(* Spec: the transmit engine *)

IdleIO ==
    /\ txbuf = [i \in Mailboxes |-> NoFrame]
    /\ fifo0 = << >>
    /\ ir = {}
    /\ tx_waker = "none" /\ err_waker = "none" /\ rx_waker = "none"
    /\ woken = {}
    /\ wpc = "idle" /\ wframe = NoFrame /\ wres = None
    /\ rpc = "idle" /\ rres = NoResult
    /\ cell = "free" /\ running = "none"

IdleGuards == handles = {} /\ nextHandle = 1 /\ log = << >>

IdleCalc == periph_clock = 0 /\ can_bitrate = 0 /\ timing = Unset

IdleRest ==
    /\ fifo1 = << >>
    /\ wspur = 0 /\ rspur = 0 /\ abandoned = {}
    /\ nbtp = ResetBitTiming
    /\ data32 = << >> /\ preserved = None
    /\ rx_built = None
    /\ tx_chan = << >> /\ tx_events = << >>
    /\ bs_pc = "idle" /\ bs_frame = NoFrame
    /\ try_frame = NoFrame /\ try_res = [kind |-> "none", frame |-> NoFrame]

IdleMore ==
    /\ fpc = "idle" /\ fmb = 0
    /\ rx_chan = << >> /\ rx_got = << >> /\ nextItem = 1
    /\ tpc = "off" /\ test_i = 0
    /\ IdleRest

IdleFrame ==
    /\ bytes = << >> /\ header_len = 0 /\ calls = {}
    /\ data_res = None /\ frame_res = None /\ data_out = None

Init ==
    /\ mode = "PoweredDown"
    /\ psr = NoErrorStatus
    /\ IdleIO /\ IdleGuards /\ IdleCalc /\ IdleFrame /\ IdleMore

Next ==
    \/ into_config_mode_PoweredDown
    \/ into_config_mode_InternalLoopback
    \/ into_normal_mode
    \/ into_external_loopback_mode
    \/ into_internal_loopback_mode
    \/ \E f \in Frames : WriteCall(f)
    \/ WriteRegister
    \/ WriteBorrow
    \/ WriteAttempt
    \/ WriteRepoll
    \/ WriteReturn
    \/ \E i \in Mailboxes : HwTransmit(i)
    \/ IT0_on_interrupt

Spec == Init /\ [][Next]_vars

\* LiveSpec: write() on a handle in Normal mode (the transitions consume the
\* handle, so none happens while a write() is in progress); the hardware
\* eventually transmits a pending frame, a pending enabled interrupt is
\* eventually served, and the executor eventually runs a task that is
\* ready to make a step
LiveInit ==
    /\ mode = "Normal"
    /\ psr = NoErrorStatus
    /\ IdleIO /\ IdleGuards /\ IdleCalc /\ IdleFrame /\ IdleMore

LiveNext ==
    \/ \E f \in Frames : WriteCall(f)
    \/ WriteRegister
    \/ WriteBorrow
    \/ WriteAttempt
    \/ WriteRepoll
    \/ WriteReturn
    \/ \E m \in Mailboxes : HwTransmit(m)
    \/ IT0_on_interrupt

LiveSpec ==
    /\ LiveInit /\ [][LiveNext]_vars
    /\ WF_vars(\E m \in Mailboxes : HwTransmit(m))
    /\ WF_vars(IT0_on_interrupt)
    /\ WF_vars(WriteRegister)
    /\ WF_vars(WriteBorrow)
    /\ WF_vars(WriteAttempt)
    /\ WF_vars(WriteRepoll)

---------------------------------------------------------------------------
(* TxErrSpec: write() while the protocol status register changes *)

\* values of the status register: no error, each of bus-off,
\* error-passive, error-warning and a last error code alone, and all
\* together
TxPsrValues ==
    {NoErrorStatus,
     [NoErrorStatus EXCEPT !.bo = TRUE],
     [NoErrorStatus EXCEPT !.ep = TRUE],
     [NoErrorStatus EXCEPT !.ew = TRUE],
     [NoErrorStatus EXCEPT !.lec = "AckError"],
     [bo |-> TRUE, ep |-> TRUE, ew |-> TRUE, lec |-> "AckError"]}

\* the peripheral updates the protocol status register
HwStatus(p) ==
    /\ mode \in OperationalModes
    /\ psr # p
    /\ psr' = p
    /\ UNCHANGED <<mode, txbuf, fifo0, ir, wakerVars, writerVars, readerVars,
                   guardVars, calcVars, frameVars, cellVars, moreVars>>

TxErrInit ==
    /\ mode = "Normal"
    /\ psr \in TxPsrValues
    /\ IdleIO /\ IdleGuards /\ IdleCalc /\ IdleFrame /\ IdleMore

TxErrNext ==
    \/ \E f \in Frames : WriteCall(f)
    \/ WriteRegister
    \/ WriteBorrow
    \/ WriteAttempt
    \/ WriteRepoll
    \/ WriteReturn
    \/ \E m \in Mailboxes : HwTransmit(m)
    \/ \E p \in TxPsrValues : HwStatus(p)
    \/ IT0_on_interrupt

TxErrSpec == TxErrInit /\ [][TxErrNext]_vars

---------------------------------------------------------------------------
(* RxSpec: the receive engine, for every value of the status register *)

\* frames the bus delivers
RxFrames == [id : {1}, val : 0..MaxVal]

RxInit ==
    /\ mode = "Normal"
    /\ psr \in PsrValues
    /\ IdleIO /\ IdleGuards /\ IdleCalc /\ IdleFrame /\ IdleMore

RxNext ==
    \/ ReadCall
    \/ ReadRegister
    \/ ReadBorrow
    \/ ReadAttempt
    \/ ReadRepoll
    \/ ReadReturn
    \/ \E f \in RxFrames : HwReceive(f)
    \/ IT0_on_interrupt

RxSpec == RxInit /\ [][RxNext]_vars

---------------------------------------------------------------------------
(* flush(): Fdcan::flush, a task next to the writer of a split() handle *)

\* T::regs().txbrp().read(): the mailboxes with a transmit request pending
txbrp(buf) == {m \in Mailboxes : buf[m] # NoFrame}

\* Txbrp::trp(n) of the register access crate: element n of the one-bit
\* field array TRP, i.e. bit n of the register
trp(reg, n) == n \in reg

\* the argument flush() hands to trp: let idx = 1 << idx
FlushIndex(mb) == 2 ^ mb

\* the poll closure after the registration, on mailboxes `buf`: the set of
\* outcomes. An index past the field array fails the accessor's bounds
\* assertion, or reads a reserved bit (zero) in a build without it.
FlushOutcome(buf, mb) ==
    IF FlushIndex(mb) \in Mailboxes
    THEN {IF ~trp(txbrp(buf), FlushIndex(mb)) THEN "done" ELSE "pending"}
    ELSE {"panicked", "done"}

FlushCall(mb) ==
    /\ mode \in OperationalModes
    /\ fpc = "idle"
    /\ running = "none"
    /\ running' = "F"
    /\ fpc' = "polling"
    /\ fmb' = mb
    /\ UNCHANGED <<hwVars, wakerVars, writerVars, readerVars, guardVars,
                   calcVars, frameVars, cell, chanVars, loopVars,
                   restVars>>

\* T::state().tx_waker.register(cx.waker())
FlushRegister ==
    /\ fpc = "polling"
    /\ tx_waker' = "F"
    /\ fpc' = "registered"
    /\ UNCHANGED <<fmb, hwVars, err_waker, rx_waker, woken, writerVars,
                   readerVars, guardVars, calcVars, frameVars, cellVars,
                   chanVars, loopVars,
                   restVars>>

FlushAttempt ==
    /\ fpc = "registered"
    /\ fpc' \in FlushOutcome(txbuf, fmb)
    /\ running' = "none"
    /\ UNCHANGED <<fmb, hwVars, wakerVars, writerVars, readerVars, guardVars,
                   calcVars, frameVars, cell, chanVars, loopVars,
                   restVars>>

FlushRepoll ==
    /\ fpc = "pending"
    /\ "F" \in woken
    /\ running = "none"
    /\ running' = "F"
    /\ woken' = woken \ {"F"}
    /\ fpc' = "polling"
    /\ UNCHANGED <<fmb, hwVars, tx_waker, err_waker, rx_waker, writerVars,
                   readerVars, guardVars, calcVars, frameVars, cell,
                   chanVars, loopVars,
                   restVars>>

FlushReturn ==
    /\ fpc = "done"
    /\ fpc' = "idle"
    /\ UNCHANGED <<fmb, hwVars, wakerVars, writerVars, readerVars, guardVars,
                   calcVars, frameVars, cellVars, chanVars, loopVars,
                   restVars>>

FlushInit ==
    /\ mode = "Normal"
    /\ psr = NoErrorStatus
    /\ IdleIO /\ IdleGuards /\ IdleCalc /\ IdleFrame /\ IdleMore

FlushNext ==
    \/ \E f \in Frames : WriteCall(f)
    \/ WriteRegister
    \/ WriteBorrow
    \/ WriteAttempt
    \/ WriteRepoll
    \/ WriteReturn
    \/ \E mb \in Mailboxes : FlushCall(mb)
    \/ FlushRegister
    \/ FlushAttempt
    \/ FlushRepoll
    \/ FlushReturn
    \/ \E m \in Mailboxes : HwTransmit(m)
    \/ IT0_on_interrupt

FlushSpec == FlushInit /\ [][FlushNext]_vars

---------------------------------------------------------------------------
(* ErrWakeSpec: read() and write() of a split() handle while the bus goes *)
(* into an error state                                                    *)

\* protocol status values that indicate bus-off, error-passive or
\* error-warning
BusErrorStatuses ==
    {p \in [bo : BOOLEAN, ep : BOOLEAN, ew : BOOLEAN, lec : {"NoError"}] :
        p.bo \/ p.ep \/ p.ew}

\* the protocol status changes to an error state and the peripheral sets
\* a protocol-error flag of the interrupt register
HwBusError(p, flag) ==
    /\ mode \in OperationalModes
    /\ psr # p
    /\ psr' = p
    /\ ir' = ir \cup {flag}
    /\ UNCHANGED <<mode, txbuf, fifo0, wakerVars, writerVars, readerVars,
                   guardVars, calcVars, frameVars, cellVars, moreVars>>

ErrWakeInit ==
    /\ mode = "Normal"
    /\ psr = NoErrorStatus
    /\ IdleIO /\ IdleGuards /\ IdleCalc /\ IdleFrame /\ IdleMore

ErrWakeNext ==
    \/ \E f \in {[id |-> 1, val |-> 0]} : WriteCall(f)
    \/ WriteRegister
    \/ WriteBorrow
    \/ WriteAttempt
    \/ WriteRepoll
    \/ WriteReturn
    \/ ReadCall
    \/ ReadRegister
    \/ ReadBorrow
    \/ ReadAttempt
    \/ ReadRepoll
    \/ ReadReturn
    \/ \E m \in Mailboxes : HwTransmit(m)
    \/ \E f \in {[id |-> 1, val |-> 0]} : HwReceive(f)
    \/ \E p \in BusErrorStatuses : \E flag \in {"ped", "pea"} : HwBusError(p, flag)
    \/ IT0_on_interrupt

\* a pending enabled interrupt is served, the executor finishes the poll
\* it has begun and polls every woken task; frames and errors come as
\* the bus has them
ErrWakeSpec ==
    /\ ErrWakeInit /\ [][ErrWakeNext]_vars
    /\ WF_vars(\E m \in Mailboxes : HwTransmit(m))
    /\ WF_vars(IT0_on_interrupt)
    /\ WF_vars(WriteRegister) /\ WF_vars(WriteBorrow) /\ WF_vars(WriteAttempt)
    /\ WF_vars(WriteReturn)
    /\ WF_vars(ReadRegister) /\ WF_vars(ReadBorrow) /\ WF_vars(ReadAttempt)
    /\ WF_vars(ReadReturn)
    /\ SF_vars(WriteRepoll) /\ SF_vars(ReadRepoll)

---------------------------------------------------------------------------
(* SharedSlotSpec: flush() on the handle and write() on the FdcanTx of    *)
(* its split(), two tasks that register in the same tx_waker              *)

SharedSlotInit ==
    /\ mode = "Normal"
    /\ psr = NoErrorStatus
    /\ IdleIO /\ IdleGuards /\ IdleCalc /\ IdleFrame /\ IdleMore

SharedSlotNext ==
    \/ \E f \in {[id |-> 1, val |-> 0]} : WriteCall(f)
    \/ WriteRegister
    \/ WriteBorrow
    \/ WriteAttempt
    \/ WriteRepoll
    \/ WriteReturn
    \/ \E mb \in Mailboxes : FlushCall(mb)
    \/ FlushRegister
    \/ FlushAttempt
    \/ FlushRepoll
    \/ FlushReturn
    \/ \E m \in Mailboxes : HwTransmit(m)
    \/ IT0_on_interrupt

\* the peripheral transmits what is pending and a pending enabled
\* interrupt is served; the executor finishes the poll it has begun, and
\* a woken task is polled however often the other task is polled meanwhile
SharedSlotSpec ==
    /\ SharedSlotInit /\ [][SharedSlotNext]_vars
    /\ WF_vars(\E m \in Mailboxes : HwTransmit(m))
    /\ WF_vars(IT0_on_interrupt)
    /\ WF_vars(WriteRegister) /\ WF_vars(WriteBorrow) /\ WF_vars(WriteAttempt)
    /\ WF_vars(WriteReturn)
    /\ WF_vars(FlushRegister) /\ WF_vars(FlushAttempt) /\ WF_vars(FlushReturn)
    /\ SF_vars(WriteRepoll) /\ SF_vars(FlushRepoll)

---------------------------------------------------------------------------
(* SplitSpec: FdcanTx::write and FdcanRx::read of a split() handle as two *)
(* tasks of one executor, with the hardware and both interrupt handlers   *)

\* the frame the writer task sends and the frame the bus delivers
SplitFrames == {[id |-> 1, val |-> 0]}

SplitInit ==
    /\ mode = "Normal"
    /\ psr = NoErrorStatus
    /\ IdleIO /\ IdleGuards /\ IdleCalc /\ IdleFrame /\ IdleMore

SplitNext ==
    \/ \E f \in SplitFrames : WriteCall(f)
    \/ WriteRegister
    \/ WriteBorrow
    \/ WriteAttempt
    \/ WriteRepoll
    \/ WriteReturn
    \/ ReadCall
    \/ ReadRegister
    \/ ReadBorrow
    \/ ReadAttempt
    \/ ReadRepoll
    \/ ReadReturn
    \/ \E m \in Mailboxes : HwTransmit(m)
    \/ \E f \in SplitFrames : HwReceive(f)
    \/ \E flag \in OtherFlags : HwRaise(flag)
    \/ IT0_on_interrupt
    \/ IT1_on_interrupt

SplitSpec == SplitInit /\ [][SplitNext]_vars

---------------------------------------------------------------------------
(* AwaitSpec: write() and read() on the unsplit handle. Both take &mut    *)
(* self, so one call is in progress at a time. The caller may drop a      *)
(* suspended write() or read(), and the task may be woken by something    *)
(* other than the driver.                                                 *)

\* the caller drops the future of a suspended write(): the closure of
\* poll_fn holds references only, nothing runs when it is dropped
WriteDrop ==
    /\ wpc = "pending"
    /\ wpc' = "idle"
    /\ wframe' = NoFrame
    /\ wres' = None
    /\ wspur' = 0
    /\ abandoned' = abandoned \cup {"W"}
    /\ UNCHANGED <<hwVars, wakerVars, readerVars, guardVars, calcVars,
                   frameVars, cellVars, flushVars, chanVars, loopVars,
                   otherVars, lastVars, rspur>>

\* the caller drops the future of a suspended read()
ReadDrop ==
    /\ rpc = "pending"
    /\ rpc' = "idle"
    /\ rres' = NoResult
    /\ rspur' = 0
    /\ abandoned' = abandoned \cup {"R"}
    /\ UNCHANGED <<hwVars, wakerVars, writerVars, guardVars, calcVars,
                   frameVars, cellVars, flushVars, chanVars, loopVars,
                   otherVars, lastVars, wspur>>

\* the task of a suspended write() is woken by something else it awaits,
\* or once more by a wake already delivered: the executor will poll it
WriteSpuriousWake ==
    /\ wpc = "pending"
    /\ wspur < MaxSpurious
    /\ woken' = woken \cup {"W"}
    /\ wspur' = wspur + 1
    /\ UNCHANGED <<hwVars, tx_waker, err_waker, rx_waker, writerVars,
                   readerVars, guardVars, calcVars, frameVars, cellVars,
                   flushVars, chanVars, loopVars, otherVars, lastVars, rspur, abandoned>>

ReadSpuriousWake ==
    /\ rpc = "pending"
    /\ rspur < MaxSpurious
    /\ woken' = woken \cup {"R"}
    /\ rspur' = rspur + 1
    /\ UNCHANGED <<hwVars, tx_waker, err_waker, rx_waker, writerVars,
                   readerVars, guardVars, calcVars, frameVars, cellVars,
                   flushVars, chanVars, loopVars, otherVars, lastVars, wspur, abandoned>>

\* no call of the handle is in progress
HandleFree == wpc = "idle" /\ rpc = "idle" /\ fpc = "idle"

\* the frames written: one of high priority and, of the lowest priority,
\* as many as there are mailboxes
AwaitFrames ==
    {[id |-> 1, val |-> 0]} \cup [id : {MaxId}, val : 0..(NumMailboxes - 1)]

\* frames are told apart by their content: the caller writes a frame that
\* differs from the ones pending
FreshFrames == {f \in AwaitFrames : \A m \in Mailboxes : txbuf[m] # f}

AwaitInit ==
    /\ mode = "Normal"
    /\ psr = NoErrorStatus
    /\ IdleIO /\ IdleGuards /\ IdleCalc /\ IdleFrame /\ IdleMore

AwaitNext ==
    \/ (HandleFree /\ \E f \in FreshFrames : WriteCall(f))
    \/ WriteRegister
    \/ WriteBorrow
    \/ WriteAttempt
    \/ WriteRepoll
    \/ WriteReturn
    \/ WriteDrop
    \/ WriteSpuriousWake
    \/ (HandleFree /\ ReadCall)
    \/ ReadRegister
    \/ ReadBorrow
    \/ ReadAttempt
    \/ ReadRepoll
    \/ ReadReturn
    \/ ReadDrop
    \/ ReadSpuriousWake
    \/ \E m \in Mailboxes : HwTransmit(m)
    \/ \E f \in SplitFrames : HwReceive(f)
    \/ IT0_on_interrupt

AwaitSpec == AwaitInit /\ [][AwaitNext]_vars

---------------------------------------------------------------------------
(* SoloSpec: write(), flush() and read() called one at a time on the      *)
(* unsplit handle, each poll interleaved with the peripheral and the      *)
(* interrupt handler at every step                                        *)

SoloInit ==
    /\ mode = "Normal"
    /\ psr = NoErrorStatus
    /\ IdleIO /\ IdleGuards /\ IdleCalc /\ IdleFrame /\ IdleMore

SoloNext ==
    \/ (HandleFree /\ \E f \in SplitFrames : WriteCall(f))
    \/ WriteRegister
    \/ WriteBorrow
    \/ WriteAttempt
    \/ WriteRepoll
    \/ WriteReturn
    \/ (HandleFree /\ \E mb \in Mailboxes : FlushCall(mb))
    \/ FlushRegister
    \/ FlushAttempt
    \/ FlushRepoll
    \/ FlushReturn
    \/ (HandleFree /\ ReadCall)
    \/ ReadRegister
    \/ ReadBorrow
    \/ ReadAttempt
    \/ ReadRepoll
    \/ ReadReturn
    \/ \E m \in Mailboxes : HwTransmit(m)
    \/ \E f \in SplitFrames : HwReceive(f)
    \/ IT0_on_interrupt

\* a pending enabled interrupt is served and the executor runs a task
\* that can make a step
SoloSpec ==
    /\ SoloInit /\ [][SoloNext]_vars
    /\ WF_vars(IT0_on_interrupt)
    /\ WF_vars(WriteRegister) /\ WF_vars(WriteBorrow) /\ WF_vars(WriteAttempt)
    /\ WF_vars(WriteRepoll)
    /\ WF_vars(FlushRegister) /\ WF_vars(FlushAttempt) /\ WF_vars(FlushRepoll)
    /\ WF_vars(ReadRegister) /\ WF_vars(ReadBorrow) /\ WF_vars(ReadAttempt)
    /\ WF_vars(ReadRepoll)

---------------------------------------------------------------------------
(* Buffered handles and their guards (common.rs) *)

\* number of times a notification `op` has been issued
RECURSIVE Count(_, _)
Count(lg, op) ==
    IF lg = << >> THEN 0
    ELSE (IF Head(lg).op = op THEN 1 ELSE 0) + Count(Tail(lg), op)

\* a log entry names the handle whose guard issued the notification
Notify(lg, op, h) == Append(lg, [op |-> op, h |-> h])

\* TxGuard::new: (info.internal_operation)(NotifySenderCreated)
TxGuard_new(lg, h) == Notify(lg, "NotifySenderCreated", h)
\* Drop for TxGuard
TxGuard_drop_silent(lg, h) == lg
TxGuard_drop(lg, h) == Notify(lg, "NotifySenderDestroyed", h)
\* RxGuard::new
RxGuard_new(lg, h) == Notify(lg, "NotifyReceiverCreated", h)
\* Drop for RxGuard
RxGuard_drop(lg, h) == Notify(lg, "NotifyReceiverDestroyed", h)

\* the guard field of a clone: TxGuard::new(self.tx_guard.info())
BufferedSender_clone_guard_rx(lg, h) == RxGuard_new(lg, h)
BufferedSender_clone_guard(lg, h) == TxGuard_new(lg, h)
\* RxGuard::new(self.rx_guard.info())
BufferedReceiver_clone_guard(lg, h) == RxGuard_new(lg, h)

Handle(id, kind, parent) == [id |-> id, kind |-> kind, parent |-> parent]

GuardFrame == UNCHANGED <<hwVars, wakerVars, writerVars, readerVars,
                          calcVars, frameVars, cellVars, moreVars>>

\* a BufferedSender is built around a fresh TxGuard
BufferedSender_new ==
    /\ nextHandle <= MaxHandles
    /\ log' = TxGuard_new(log, Handle(nextHandle, "BufferedSender", 0))
    /\ handles' = handles \cup {Handle(nextHandle, "BufferedSender", 0)}
    /\ nextHandle' = nextHandle + 1
    /\ GuardFrame

\* impl Clone for BufferedSender
BufferedSender_clone(h) ==
    /\ nextHandle <= MaxHandles
    /\ h \in handles /\ h.kind = "BufferedSender"
    /\ log' = BufferedSender_clone_guard(
                  log, Handle(nextHandle, "BufferedSender", h.id))
    /\ handles' = handles \cup {Handle(nextHandle, "BufferedSender", h.id)}
    /\ nextHandle' = nextHandle + 1
    /\ GuardFrame

\* a BufferedSender goes out of scope: its TxGuard is dropped
BufferedSender_drop(h) ==
    /\ h \in handles /\ h.kind = "BufferedSender"
    /\ log' = TxGuard_drop(log, h)
    /\ handles' = handles \ {h}
    /\ UNCHANGED nextHandle
    /\ GuardFrame

\* a BufferedReceiver is built around a fresh RxGuard
BufferedReceiver_new ==
    /\ nextHandle <= MaxHandles
    /\ log' = RxGuard_new(log, Handle(nextHandle, "BufferedReceiver", 0))
    /\ handles' = handles \cup {Handle(nextHandle, "BufferedReceiver", 0)}
    /\ nextHandle' = nextHandle + 1
    /\ GuardFrame

\* impl Clone for BufferedReceiver
BufferedReceiver_clone(h) ==
    /\ nextHandle <= MaxHandles
    /\ h \in handles /\ h.kind = "BufferedReceiver"
    /\ log' = BufferedReceiver_clone_guard(
                  log, Handle(nextHandle, "BufferedReceiver", h.id))
    /\ handles' = handles \cup {Handle(nextHandle, "BufferedReceiver", h.id)}
    /\ nextHandle' = nextHandle + 1
    /\ GuardFrame

\* a BufferedReceiver goes out of scope: its RxGuard is dropped
BufferedReceiver_drop(h) ==
    /\ h \in handles /\ h.kind = "BufferedReceiver"
    /\ log' = RxGuard_drop(log, h)
    /\ handles' = handles \ {h}
    /\ UNCHANGED nextHandle
    /\ GuardFrame

\* Guards::new: the guard pair of a transceiver type, tx then _rx
Guards_new ==
    /\ nextHandle <= MaxHandles
    /\ LET g == Handle(nextHandle, "Guards", 0) IN
          log' = RxGuard_new(TxGuard_new(log, g), g)
    /\ handles' = handles \cup {Handle(nextHandle, "Guards", 0)}
    /\ nextHandle' = nextHandle + 1
    /\ GuardFrame

\* a Guards value is dropped: its fields are dropped in declaration order
Guards_drop(h) ==
    /\ h \in handles /\ h.kind = "Guards"
    /\ log' = RxGuard_drop(TxGuard_drop(log, h), h)
    /\ handles' = handles \ {h}
    /\ UNCHANGED nextHandle
    /\ GuardFrame

GuardInit ==
    /\ mode = "Config"
    /\ psr = NoErrorStatus
    /\ IdleIO /\ IdleGuards /\ IdleCalc /\ IdleFrame /\ IdleMore

GuardNext ==
    \/ BufferedSender_new
    \/ \E h \in handles : BufferedSender_clone(h)
    \/ \E h \in handles : BufferedSender_drop(h)
    \/ BufferedReceiver_new
    \/ \E h \in handles : BufferedReceiver_clone(h)
    \/ \E h \in handles : BufferedReceiver_drop(h)
    \/ Guards_new
    \/ \E h \in handles : Guards_drop(h)

GuardSpec == GuardInit /\ [][GuardNext]_vars

---------------------------------------------------------------------------
(* LoopSpec: the loopback loop of the test's main (tests/.../fdcan.rs) *)

\* the last value of i for which the loop body runs again: if i > 10 break
LOOP_LAST == 10

\* the identifier of the test's frames (StandardId 0x123), as a priority
TestId == 2

\* TxFrame::new(TxFrameHeader { len: 1, .. }, &[i]).unwrap(), as the frame
\* write() hands to the peripheral: its identifier and its first data byte
TestFrame(v) ==
    LET tx_frame == TxFrame_new(1, <<v>>)[1] IN
    [id |-> TestId, val |-> TxFrame_data(tx_frame)[1][1]]

\* can.write(&tx_frame): the call, and the first step of the poll
MainWrite ==
    /\ tpc = "write"
    /\ wpc = "idle" /\ running = "none"
    /\ tpc' = "writing"
    /\ wpc' = "polling"
    /\ wframe' = TestFrame(test_i)
    /\ running' = "W"
    /\ UNCHANGED <<wres, test_i, hwVars, wakerVars, readerVars, guardVars,
                   calcVars, frameVars, cell, flushVars, chanVars,
                   restVars>>

\* write() has returned; can.read(): the call
MainRead ==
    /\ tpc = "writing"
    /\ wpc = "done"
    /\ rpc = "idle" /\ running = "none"
    /\ tpc' = "reading"
    /\ wpc' = "idle" /\ wframe' = NoFrame /\ wres' = None
    /\ rpc' = "polling"
    /\ running' = "R"
    /\ wspur' = 0
    /\ UNCHANGED <<rres, test_i, hwVars, wakerVars, guardVars, calcVars,
                   frameVars, cell, flushVars, chanVars,
                   otherVars, lastVars, rspur, abandoned>>

\* read() has returned: unwrap(), assert!(i == envelope.data()[0]),
\* i += 1, if i > 10 break
MainCheck ==
    /\ tpc = "reading"
    /\ rpc = "done"
    /\ rpc' = "idle" /\ rres' = NoResult
    /\ IF rres.kind = "Ok" /\ rres.frame.val = test_i
       THEN /\ test_i' = test_i + 1
            /\ tpc' = IF test_i + 1 > LOOP_LAST THEN "end" ELSE "write"
       ELSE /\ test_i' = test_i
            /\ tpc' = "panicked"
    /\ rspur' = 0
    /\ UNCHANGED <<hwVars, wakerVars, writerVars, guardVars, calcVars,
                   frameVars, cellVars, flushVars, chanVars,
                   otherVars, lastVars, wspur, abandoned>>

\* internal loopback with the test's filters: the frame the peripheral
\* transmits from mailbox m is received into FIFO 0 (IR.TC and IR.RF0N)
HwLoopback(m) ==
    /\ mode = "InternalLoopback"
    /\ txbuf[m] # NoFrame
    /\ Len(fifo0) < MaxFifo
    /\ txbuf' = [txbuf EXCEPT ![m] = NoFrame]
    /\ fifo0' = Append(fifo0, txbuf[m])
    /\ ir' = ir \cup {"tc", "rfn0"}
    /\ UNCHANGED <<mode, psr, wakerVars, writerVars, readerVars, guardVars,
                   calcVars, frameVars, cellVars, moreVars>>

\* main after can.into_internal_loopback_mode()
LoopInit ==
    /\ mode = "InternalLoopback"
    /\ psr = NoErrorStatus
    /\ IdleIO /\ IdleGuards /\ IdleCalc /\ IdleFrame
    /\ fpc = "idle" /\ fmb = 0
    /\ rx_chan = << >> /\ rx_got = << >> /\ nextItem = 1
    /\ tpc = "write" /\ test_i = 0
    /\ IdleRest

LoopNext ==
    \/ MainWrite
    \/ WriteRegister
    \/ WriteBorrow
    \/ WriteAttempt
    \/ MainRead
    \/ ReadRegister
    \/ ReadBorrow
    \/ ReadAttempt
    \/ ReadRepoll
    \/ MainCheck
    \/ \E m \in Mailboxes : HwLoopback(m)
    \/ IT0_on_interrupt

\* the executor runs main when it can make a step, the peripheral
\* transmits a pending frame, a pending enabled interrupt is served
LoopSpec ==
    /\ LoopInit /\ [][LoopNext]_vars
    /\ WF_vars(MainWrite) /\ WF_vars(WriteRegister) /\ WF_vars(WriteBorrow)
    /\ WF_vars(WriteAttempt) /\ WF_vars(MainRead) /\ WF_vars(ReadRegister)
    /\ WF_vars(ReadBorrow) /\ WF_vars(ReadAttempt) /\ WF_vars(ReadRepoll)
    /\ WF_vars(MainCheck)
    /\ WF_vars(\E m \in Mailboxes : HwLoopback(m))
    /\ WF_vars(IT0_on_interrupt)

---------------------------------------------------------------------------
(* BothSpec: the second part of the test's main: three standard-ID and    *)
(* three extended-ID frames are written, then six frames are read. The    *)
(* third part repeats it on the halves of split(), whose write() and      *)
(* read() have the same bodies.                                           *)

\* for i in 0..3: the standard-ID frames
STD_FRAMES == 3
\* for i in 3..6, for i in 0..6: all frames written, and the reads
ALL_FRAMES == 6
\* slots of each receive FIFO ("There are only 3 slots in each FIFO")
RX_FIFO_MAX == 3

\* the priority of the test's extended identifier (ExtendedId 0x1232344)
\* against the standard one: the order the peripheral's driver gives the
\* two is outside this repository, so both orders are possible
TestExtIds == {TestId - 1, TestId + 1}

\* the frame of iteration v of the two write loops
BothFrames(v) ==
    IF v < STD_FRAMES THEN {TestFrame(v)}
    ELSE {[id |-> x, val |-> TestFrame(v).val] : x \in TestExtIds}

\* can.write(&tx_frame) of the write loops: the call
BothWrite ==
    /\ tpc = "write"
    /\ wpc = "idle" /\ running = "none"
    /\ tpc' = "writing"
    /\ wpc' = "polling"
    /\ wframe' \in BothFrames(test_i)
    /\ running' = "W"
    /\ UNCHANGED <<wres, test_i, hwVars, wakerVars, readerVars, guardVars,
                   calcVars, frameVars, cell, flushVars, chanVars, restVars>>

\* write() has returned (its value is not looked at); next iteration, or
\* on to the read loop
BothWritten ==
    /\ tpc = "writing"
    /\ wpc = "done"
    /\ wpc' = "idle" /\ wframe' = NoFrame /\ wres' = None
    /\ wspur' = 0
    /\ IF test_i + 1 < ALL_FRAMES
       THEN tpc' = "write" /\ test_i' = test_i + 1
       ELSE tpc' = "read" /\ test_i' = 0
    /\ UNCHANGED <<hwVars, wakerVars, readerVars, guardVars, calcVars,
                   frameVars, cellVars, flushVars, chanVars,
                   otherVars, lastVars, rspur, abandoned>>

\* can.read() of the read loop: the call
BothRead ==
    /\ tpc = "read"
    /\ rpc = "idle" /\ running = "none"
    /\ tpc' = "reading"
    /\ rpc' = "polling"
    /\ running' = "R"
    /\ UNCHANGED <<rres, test_i, hwVars, wakerVars, writerVars, guardVars,
                   calcVars, frameVars, cell, flushVars, chanVars, restVars>>

\* read() has returned: unwrap(); next iteration, or the end of the loop
BothChecked ==
    /\ tpc = "reading"
    /\ rpc = "done"
    /\ rpc' = "idle" /\ rres' = NoResult
    /\ rspur' = 0
    /\ IF rres.kind # "Ok" THEN tpc' = "panicked" /\ test_i' = test_i
       ELSE IF test_i + 1 < ALL_FRAMES
       THEN tpc' = "read" /\ test_i' = test_i + 1
       ELSE tpc' = "end" /\ test_i' = test_i + 1
    /\ UNCHANGED <<hwVars, wakerVars, writerVars, guardVars, calcVars,
                   frameVars, cellVars, flushVars, chanVars,
                   otherVars, lastVars, wspur, abandoned>>

\* a receive FIFO takes the frame unless it is full (the frame is lost)
FifoAccept(fifo, f) == IF Len(fifo) < RX_FIFO_MAX THEN Append(fifo, f) ELSE fifo

\* internal loopback with the filters main sets up: the frame transmitted
\* from mailbox m (IR.TC) is received into FIFO 1 if its identifier is
\* extended (accept_all_into_fifo1: IR.RF1N), into FIFO 0 otherwise (IR.RF0N)
HwLoopbackFiltered(m) ==
    /\ mode = "InternalLoopback"
    /\ txbuf[m] # NoFrame
    /\ txbuf' = [txbuf EXCEPT ![m] = NoFrame]
    /\ IF txbuf[m].id = TestId
       THEN /\ fifo0' = FifoAccept(fifo0, txbuf[m])
            /\ fifo1' = fifo1
            /\ ir' = ir \cup {"tc"}
                        \cup (IF Len(fifo0) < RX_FIFO_MAX THEN {"rfn0"} ELSE {})
       ELSE /\ fifo1' = FifoAccept(fifo1, txbuf[m])
            /\ fifo0' = fifo0
            /\ ir' = ir \cup {"tc"}
                        \cup (IF Len(fifo1) < RX_FIFO_MAX THEN {"rfn1"} ELSE {})
    /\ UNCHANGED <<mode, psr, wakerVars, writerVars, readerVars, guardVars,
                   calcVars, frameVars, cellVars, flushVars, chanVars,
                   loopVars, awaitVars, nbtp, data32, preserved, lastVars>>

\* main after the first loop has ended
BothInit ==
    /\ mode = "InternalLoopback"
    /\ psr = NoErrorStatus
    /\ IdleIO /\ IdleGuards /\ IdleCalc /\ IdleFrame
    /\ fpc = "idle" /\ fmb = 0
    /\ rx_chan = << >> /\ rx_got = << >> /\ nextItem = 1
    /\ tpc = "write" /\ test_i = 0
    /\ IdleRest

BothNext ==
    \/ BothWrite
    \/ WriteRegister
    \/ WriteBorrow
    \/ WriteAttempt
    \/ WriteRepoll
    \/ BothWritten
    \/ BothRead
    \/ ReadRegister
    \/ ReadBorrow
    \/ ReadAttempt
    \/ ReadRepoll
    \/ BothChecked
    \/ \E m \in Mailboxes : HwLoopbackFiltered(m)
    \/ IT0_on_interrupt

\* the executor runs main when it can make a step, the peripheral
\* transmits a pending frame, a pending enabled interrupt is served
BothSpec ==
    /\ BothInit /\ [][BothNext]_vars
    /\ WF_vars(BothWrite) /\ WF_vars(WriteRegister) /\ WF_vars(WriteBorrow)
    /\ WF_vars(WriteAttempt) /\ WF_vars(WriteRepoll) /\ WF_vars(BothWritten)
    /\ WF_vars(BothRead) /\ WF_vars(ReadRegister) /\ WF_vars(ReadBorrow)
    /\ WF_vars(ReadAttempt) /\ WF_vars(ReadRepoll) /\ WF_vars(BothChecked)
    /\ WF_vars(\E m \in Mailboxes : HwLoopbackFiltered(m))
    /\ WF_vars(IT0_on_interrupt)

---------------------------------------------------------------------------
(* ChanSpec: BufferedReceiver handles receiving from their channel *)

\* DynamicReceiver::try_receive on a channel holding `q`: the oldest item
\* is taken out of the channel, or there is none
Channel_try_receive(q) ==
    IF q = << >> THEN [item |-> None, chan |-> q]
    ELSE [item |-> Some(Head(q)), chan |-> Tail(q)]

\* BufferedReceiver::try_receive: self.rx_buf.try_receive()
BufferedReceiver_try_receive_peek(q) ==
    IF q = << >> THEN [item |-> None, chan |-> q]
    ELSE [item |-> Some(Head(q)), chan |-> q]
BufferedReceiver_try_receive(q) == Channel_try_receive(q)
\* a poll of the future of BufferedReceiver::receive: self.rx_buf.receive()
BufferedReceiver_receive(q) == Channel_try_receive(q)
\* BufferedReceiver::poll_receive: self.rx_buf.poll_receive(cx)
BufferedReceiver_poll_receive(q) == Channel_try_receive(q)

ChanFrame ==
    UNCHANGED <<hwVars, wakerVars, writerVars, readerVars, guardVars, calcVars,
                frameVars, cellVars, flushVars, loopVars,
                restVars>>

\* what a call by handle h that returned r leaves behind
Returned(h, r) ==
    /\ rx_chan' = r.chan
    /\ rx_got' = IF r.item = None THEN rx_got
                 ELSE Append(rx_got, [h |-> h, item |-> r.item[1]])
    /\ UNCHANGED nextItem
    /\ ChanFrame

TryReceive(h) ==
    /\ h \in handles /\ h.kind = "BufferedReceiver"
    /\ Returned(h, BufferedReceiver_try_receive(rx_chan))

Receive(h) ==
    /\ h \in handles /\ h.kind = "BufferedReceiver"
    /\ Returned(h, BufferedReceiver_receive(rx_chan))

PollReceive(h) ==
    /\ h \in handles /\ h.kind = "BufferedReceiver"
    /\ Returned(h, BufferedReceiver_poll_receive(rx_chan))

\* the driver puts a received item on the channel (rx_sender.try_send)
ChanSend ==
    /\ nextItem <= MaxItems
    /\ Len(rx_chan) < MaxChan
    /\ rx_chan' = Append(rx_chan, nextItem)
    /\ nextItem' = nextItem + 1
    /\ UNCHANGED rx_got
    /\ ChanFrame

ChanInit == GuardInit

ChanNext ==
    \/ BufferedReceiver_new
    \/ \E h \in handles : BufferedReceiver_clone(h)
    \/ \E h \in handles : BufferedReceiver_drop(h)
    \/ ChanSend
    \/ \E h \in handles : TryReceive(h)
    \/ \E h \in handles : Receive(h)
    \/ \E h \in handles : PollReceive(h)

ChanSpec == ChanInit /\ [][ChanNext]_vars

---------------------------------------------------------------------------
(* SenderSpec: BufferedSender::try_write and BufferedSender::write on the *)
(* channel the driver takes its frames from                               *)

TryOk == [kind |-> "Ok", frame |-> NoFrame]
\* Err(TrySendError::Full(frame))
TryFull(f) == [kind |-> "Full", frame |-> f]

\* DynamicSender::try_send on a channel holding `q`: the frame is put
\* last, or handed back when the channel holds MaxChan frames
Channel_try_send(q, f) ==
    IF Len(q) < MaxChan THEN [chan |-> Append(q, f), full |-> None]
    ELSE [chan |-> q, full |-> Some(f)]

\* BufferedSender::try_write: [chan, events, res]; `?` returns the error
\* of try_send before the callback
BufferedSender_try_write_wake_always(q, f) ==
    LET r == Channel_try_send(q, f) IN
    IF r.full # None
    THEN [chan |-> r.chan, events |-> <<"tx_waker">>, res |-> TryFull(r.full[1])]
    ELSE [chan |-> r.chan, events |-> <<"send", "tx_waker">>, res |-> TryOk]
BufferedSender_try_write(q, f) ==
    LET r == Channel_try_send(q, f) IN
    IF r.full # None
    THEN [chan |-> r.chan, events |-> << >>, res |-> TryFull(r.full[1])]
    ELSE [chan |-> r.chan, events |-> <<"send", "tx_waker">>, res |-> TryOk]

\* a poll of BufferedSender::write: self.tx_buf.send(frame).await, then
\* the callback in the same poll: [pc, chan, events]
BufferedSender_write_poll(q, f) ==
    LET r == Channel_try_send(q, f) IN
    IF r.full # None
    THEN [pc |-> "pending", chan |-> r.chan, events |-> << >>]
    ELSE [pc |-> "done", chan |-> r.chan, events |-> <<"send", "tx_waker">>]

SenderFrames == [id : {1}, val : 0..MaxVal]

\* frames enqueued so far
SentCount == Cardinality({i \in 1..Len(tx_events) : tx_events[i] = "send"})

SenderFrame ==
    UNCHANGED <<hwVars, wakerVars, writerVars, readerVars, guardVars, calcVars,
                frameVars, cellVars, flushVars, chanVars, loopVars, awaitVars,
                otherVars, rx_built>>

TryWrite(f) ==
    /\ SentCount + (IF bs_pc \in {"polling", "pending"} THEN 1 ELSE 0)
          < MaxItems
    /\ LET r == BufferedSender_try_write(tx_chan, f) IN
          /\ tx_chan' = r.chan
          /\ tx_events' = tx_events \o r.events
          /\ try_res' = r.res
    /\ try_frame' = f
    /\ UNCHANGED <<bs_pc, bs_frame>>
    /\ SenderFrame

BsWriteCall(f) ==
    /\ bs_pc = "idle"
    /\ SentCount < MaxItems
    /\ bs_pc' = "polling"
    /\ bs_frame' = f
    /\ UNCHANGED <<tx_chan, tx_events, try_frame, try_res>>
    /\ SenderFrame

BsWritePoll ==
    /\ bs_pc = "polling"
    /\ LET r == BufferedSender_write_poll(tx_chan, bs_frame) IN
          /\ bs_pc' = r.pc
          /\ tx_chan' = r.chan
          /\ tx_events' = tx_events \o r.events
    /\ UNCHANGED <<bs_frame, try_frame, try_res>>
    /\ SenderFrame

\* the executor polls the suspended write() again
BsWriteRepoll ==
    /\ bs_pc = "pending"
    /\ bs_pc' = "polling"
    /\ UNCHANGED <<tx_chan, tx_events, bs_frame, try_frame, try_res>>
    /\ SenderFrame

BsWriteReturn ==
    /\ bs_pc = "done"
    /\ bs_pc' = "idle"
    /\ bs_frame' = NoFrame
    /\ UNCHANGED <<tx_chan, tx_events, try_frame, try_res>>
    /\ SenderFrame

\* the caller drops the suspended future of write()
BsWriteDrop ==
    /\ bs_pc = "pending"
    /\ bs_pc' = "idle"
    /\ bs_frame' = NoFrame
    /\ UNCHANGED <<tx_chan, tx_events, try_frame, try_res>>
    /\ SenderFrame

\* the driver takes the oldest frame off the channel (tx_receiver)
TxDrain ==
    /\ tx_chan # << >>
    /\ tx_chan' = Tail(tx_chan)
    /\ UNCHANGED <<tx_events, bs_pc, bs_frame, try_frame, try_res>>
    /\ SenderFrame

SenderInit == GuardInit

SenderNext ==
    \/ \E f \in SenderFrames : TryWrite(f)
    \/ \E f \in SenderFrames : BsWriteCall(f)
    \/ BsWritePoll
    \/ BsWriteRepoll
    \/ BsWriteReturn
    \/ BsWriteDrop
    \/ TxDrain

SenderSpec == SenderInit /\ [][SenderNext]_vars

---------------------------------------------------------------------------
(* Bit timing: calc_fdcan_timings *)

BS1_MAX == 16
BS2_MAX == 8
MAX_SAMPLE_POINT_PERMILL == 900
\* bitrates below this are refused
MIN_BITRATE == 1000
\* bitrate from which the maximum quanta per bit is 10 instead of 17
FAST_BITRATE == 1000000
MAX_QUANTA_FAST == 10
MAX_QUANTA_SLOW == 17
MAX_PRESCALER == 1024

\* the while loop: the largest bs1_bs2_sum, counting down from `sum`, with
\* prescaler_bs % (1 + bs1_bs2_sum) = 0; 0 stands for `return None`
RECURSIVE QuantaSearch(_, _)
QuantaSearch(sum, prescaler_bs) ==
    IF prescaler_bs % (1 + sum) # 0
    THEN IF sum <= 2 THEN 0 ELSE QuantaSearch(sum - 1, prescaler_bs)
    ELSE sum

\* the prescaler range check
PrescalerInRange_no_upper(prescaler) == ~(prescaler < 1)
PrescalerInRange(prescaler) == ~((prescaler < 1) \/ (prescaler > MAX_PRESCALER))

\* bs1 rounding to nearest, and rounding to zero
Bs1Nearest(sum) == ((7 * sum - 1) + 4) \div 8
Bs1Truncated(sum) == (7 * sum - 1) \div 8

\* sample_point_permill as the code computes it: the quotient is an
\* integer (u8) division, taken before the multiplication by 1000
sample_point_permill(bs1, bs2) == 1000 * ((1 + bs1) \div (1 + bs1 + bs2))

\* the first test: can_bitrate < 1000
BitrateTooLow_zero_only(bitrate) == bitrate < 1
BitrateTooLow(bitrate) == bitrate < MIN_BITRATE

calc_fdcan_timings(clock, bitrate) ==
    IF BitrateTooLow(bitrate) THEN NoSolution
    ELSE
    LET max_quanta_per_bit ==
            IF bitrate >= FAST_BITRATE THEN MAX_QUANTA_FAST ELSE MAX_QUANTA_SLOW
        prescaler_bs == clock \div bitrate
        bs1_bs2_sum == QuantaSearch(max_quanta_per_bit - 1, prescaler_bs)
        prescaler == prescaler_bs \div (1 + bs1_bs2_sum)
        bs1n == Bs1Nearest(bs1_bs2_sum)
        bs2n == bs1_bs2_sum - bs1n
        retry == sample_point_permill(bs1n, bs2n) > MAX_SAMPLE_POINT_PERMILL
        bs1 == IF retry THEN Bs1Truncated(bs1_bs2_sum) ELSE bs1n
        bs2 == bs1_bs2_sum - bs1
    IN  IF bs1_bs2_sum = 0 THEN NoSolution
        ELSE IF ~PrescalerInRange(prescaler) THEN NoSolution
        ELSE IF ~(bs1_bs2_sum > bs1n) THEN Panicked
        ELSE IF (bs1 < 1) \/ (bs1 > BS1_MAX) \/ (bs2 < 1) \/ (bs2 > BS2_MAX)
             THEN NoSolution
        ELSE IF bitrate # (clock \div (prescaler * (1 + bs1 + bs2)))
             THEN NoSolution
        ELSE NominalBitTiming(1, prescaler, bs1, bs2)

\* the caller of calc_fdcan_timings hands it the clock and the bitrate
CalcTimings ==
    /\ timing = Unset
    /\ timing' = calc_fdcan_timings(periph_clock, can_bitrate)
    /\ UNCHANGED <<periph_clock, can_bitrate, hwVars, wakerVars, writerVars,
                   readerVars, guardVars, frameVars, cellVars, moreVars>>

\* inputs: clock = bitrate * quotient + remainder
Bitrates == {0, 1, MIN_BITRATE - 1, MIN_BITRATE, 125000, 250000, 500000,
             FAST_BITRATE}
Quotients == (0..MaxQuotient)
             \cup {n * p : n \in 3..MAX_QUANTA_SLOW,
                           p \in {MAX_PRESCALER, MAX_PRESCALER + 1}}
Remainders(q) == {0, 1, q}
\* the largest clock the model checker can represent (Hertz is a u32)
MaxClock == (2 ^ 30 - 1) * 2 + 1

\* clocks tried with bitrate b
Clocks(b) ==
    IF b = 0 THEN {0, 1, MIN_BITRATE, MaxClock}
    ELSE UNION {{b * q + r : r \in {x \in Remainders(q) :
                                       /\ x < b
                                       /\ q <= (MaxClock - x) \div b}} :
                q \in Quotients}

TimingInit ==
    /\ mode = "Config"
    /\ psr = NoErrorStatus
    /\ IdleIO /\ IdleGuards /\ IdleFrame /\ IdleMore
    /\ timing = Unset
    /\ can_bitrate \in Bitrates
    /\ periph_clock \in Clocks(can_bitrate)

TimingNext == CalcTimings

TimingSpec == TimingInit /\ [][TimingNext]_vars

---------------------------------------------------------------------------
(* BitrateSpec: Fdcan::set_bitrate on the handle as it changes its mode *)

\* Option::unwrap of the value of calc_fdcan_timings panics on None; the
\* assertion inside calc_fdcan_timings panics as well
Unwrapped(bit_timing) == bit_timing.kind = "Some"

\* the bit timing of the peripheral after set_bitrate computed bit_timing:
\* set_nominal_bit_timing(bit_timing) comes after the unwrap
set_nominal_bit_timing_always(old, bit_timing) == bit_timing
set_nominal_bit_timing(old, bit_timing) ==
    IF Unwrapped(bit_timing) THEN bit_timing ELSE old

\* the program has panicked in set_bitrate
Aborted == timing.kind \in {"None", "Panic"}

\* Fdcan::set_bitrate, a method of Fdcan<'d, T, ConfigMode> only;
\* periph_clock is T::frequency()
set_bitrate(bitrate) ==
    /\ mode = "Config"
    /\ ~Aborted
    /\ can_bitrate' = bitrate
    /\ timing' = calc_fdcan_timings(periph_clock, bitrate)
    /\ nbtp' = set_nominal_bit_timing(
                   nbtp, calc_fdcan_timings(periph_clock, bitrate))
    /\ UNCHANGED <<periph_clock, hwVars, wakerVars, writerVars, readerVars,
                   guardVars, frameVars, cellVars, flushVars, chanVars,
                   loopVars, awaitVars, fifo1, data32, preserved, lastVars>>

\* values of T::frequency() tried
Frequencies == {3 * MIN_BITRATE, 8 * FAST_BITRATE, 16 * FAST_BITRATE,
                80 * FAST_BITRATE,
                170 * FAST_BITRATE}

BitrateInit ==
    /\ mode = "PoweredDown"
    /\ psr = NoErrorStatus
    /\ IdleIO /\ IdleGuards /\ IdleFrame /\ IdleMore
    /\ timing = Unset
    /\ can_bitrate = 0
    /\ periph_clock \in Frequencies

BitrateNext ==
    \/ (~Aborted /\ into_config_mode_PoweredDown)
    \/ (~Aborted /\ into_config_mode_InternalLoopback)
    \/ (~Aborted /\ into_normal_mode)
    \/ (~Aborted /\ into_external_loopback_mode)
    \/ (~Aborted /\ into_internal_loopback_mode)
    \/ \E b \in Bitrates : set_bitrate(b)

BitrateSpec == BitrateInit /\ [][BitrateNext]_vars

---------------------------------------------------------------------------
(* FrameSpec: Data::new, TxFrame::new and TxFrame::data on byte slices *)

\* the i-th byte of pattern `seed`; never zero, so that the padding shows
PatternByte(seed, i) == ((seed * i) % 255) + 1
Slice(n, seed) == [i \in 1..n |-> PatternByte(seed, i)]

\* header lengths tried with a slice of n bytes
HeaderLens(n) ==
    {0, 1, n - 1, n, n + 1, DataBytes, DataBytes + 1} \cap (0..(MaxLen + 1))

FrameFrame ==
    UNCHANGED <<hwVars, wakerVars, writerVars, readerVars, guardVars, calcVars,
                cellVars, moreVars>>

Data_new_call ==
    /\ "Data::new" \notin calls
    /\ data_res' = Data_new_bytes(bytes)
    /\ calls' = calls \cup {"Data::new"}
    /\ UNCHANGED <<bytes, header_len, frame_res, data_out>>
    /\ FrameFrame

TxFrame_new_call ==
    /\ "TxFrame::new" \notin calls
    /\ frame_res' = TxFrame_new(header_len, bytes)
    /\ calls' = calls \cup {"TxFrame::new"}
    /\ UNCHANGED <<bytes, header_len, data_res, data_out>>
    /\ FrameFrame

TxFrame_data_call ==
    /\ "data" \notin calls
    /\ frame_res # None
    /\ data_out' = TxFrame_data(frame_res[1])
    /\ calls' = calls \cup {"data"}
    /\ UNCHANGED <<bytes, header_len, data_res, frame_res>>
    /\ FrameFrame

FrameInit ==
    /\ mode = "Config"
    /\ psr = NoErrorStatus
    /\ IdleIO /\ IdleGuards /\ IdleCalc /\ IdleMore
    /\ calls = {} /\ data_res = None /\ frame_res = None /\ data_out = None
    /\ \E n \in 0..MaxLen : \E seed \in 1..MaxSeed :
          /\ bytes = Slice(n, seed)
          /\ header_len \in HeaderLens(n)

FrameNext ==
    \/ Data_new_call
    \/ TxFrame_new_call
    \/ TxFrame_data_call

FrameSpec == FrameInit /\ [][FrameNext]_vars

---------------------------------------------------------------------------
(* PreserveSpec: a frame built by TxFrame::new is stored in a transmit    *)
(* mailbox and rebuilt from the mailbox's words by from_preserved         *)

\* number of 32-bit words that fit the 64-byte array of from_preserved
DataWords == DataBytes \div 4

\* a u32 is kept as its two 16-bit halves; the word made of four bytes,
\* least significant first
Word(b) == [lo |-> b[1] + 256 * b[2], hi |-> b[3] + 256 * b[4]]

\* u32::to_le_bytes
to_be_bytes(w) == <<w.hi \div 256, w.hi % 256, w.lo \div 256, w.lo % 256>>
to_le_bytes(w) == <<w.lo % 256, w.lo \div 256, w.hi % 256, w.hi \div 256>>

\* TxFrame::from_preserved(header, data32) for at most DataWords words:
\* word i goes to data[4 * i..][..4] of a zeroed array, Data::new is
\* applied to the whole array
TxFrame_from_preserved(header, words) ==
    LET data == [i \in 1..DataBytes |->
                   IF (i - 1) \div 4 < Len(words)
                   THEN to_le_bytes(words[((i - 1) \div 4) + 1])[((i - 1) % 4) + 1]
                   ELSE 0]
        d == Data_new_bytes(data)
    IN  IF d = None THEN None
        ELSE Some([header |-> header, data |-> d[1]])

\* what a data word of the mailbox holds where the frame has no byte
StaleWords == {Word(<<0, 0, 0, 0>>), Word(<<255, 255, 255, 255>>)}

\* the first n data words of a mailbox that took `frame`: the words that
\* carry one of the header.len bytes are the bytes of the frame's buffer,
\* least significant first; the others are what the mailbox held
MailboxWords(frame, n, stale) ==
    [k \in 1..n |->
        IF 4 * (k - 1) < frame.header.len
        THEN Word(SubSeq(frame.data.bytes, 4 * k - 3, 4 * k))
        ELSE stale]

PreserveFrame ==
    UNCHANGED <<hwVars, wakerVars, writerVars, readerVars, guardVars, calcVars,
                cellVars, flushVars, chanVars, loopVars, awaitVars, fifo1, nbtp,
                lastVars>>

\* transmit_preserve(frame.header, &frame.data.bytes, ..) stores the frame;
\* when the frame is evicted the closure is handed n of the data words
TransmitStore(n, stale) ==
    /\ "store" \notin calls
    /\ frame_res # None
    /\ data32' = MailboxWords(frame_res[1], n, stale)
    /\ calls' = calls \cup {"store"}
    /\ UNCHANGED <<bytes, header_len, data_res, frame_res, data_out, preserved>>
    /\ PreserveFrame

\* the closure of write(): TxFrame::from_preserved(hdr, data32)
from_preserved_call ==
    /\ "store" \in calls
    /\ "from_preserved" \notin calls
    /\ preserved' = TxFrame_from_preserved(frame_res[1].header, data32)
    /\ calls' = calls \cup {"from_preserved"}
    /\ UNCHANGED <<bytes, header_len, data_res, frame_res, data_out, data32>>
    /\ PreserveFrame

\* data() of the frame write() returned
Preserved_data_call ==
    /\ "from_preserved" \in calls
    /\ "preserved.data" \notin calls
    /\ preserved # None
    /\ data_out' = TxFrame_data(preserved[1])
    /\ calls' = calls \cup {"preserved.data"}
    /\ UNCHANGED <<bytes, header_len, data_res, frame_res, data32, preserved>>
    /\ PreserveFrame

PreserveInit == FrameInit

PreserveNext ==
    \/ TxFrame_new_call
    \/ \E n \in 0..DataWords : \E stale \in StaleWords : TransmitStore(n, stale)
    \/ from_preserved_call
    \/ Preserved_data_call

PreserveSpec == PreserveInit /\ [][PreserveNext]_vars

---------------------------------------------------------------------------
(* RxFrameSpec: RxFrame::new on byte slices, and as read() calls it *)

\* Data::empty
Data_empty == [bytes |-> [i \in 1..DataBytes |-> 0]]

\* RxFrame::new(header, data) on the bytes themselves
RxFrame_new_bytes_keep(header, data) ==
    [header |-> header,
     data |-> [bytes |-> [i \in 1..DataBytes |->
                            IF i <= Len(data) THEN data[i] ELSE 0]]]
RxFrame_new_bytes(header, data) ==
    LET d == Data_new_bytes(data) IN
    [header |-> header, data |-> IF d = None THEN Data_empty ELSE d[1]]

\* the buffer of read() after receive0: [0; 64] with the payload of the
\* received frame written to its front
ReceiveBuffer(payload) ==
    [i \in 1..DataBytes |-> IF i <= Len(payload) THEN payload[i] ELSE 0]

RxFrameFrame ==
    UNCHANGED <<hwVars, wakerVars, writerVars, readerVars, guardVars, calcVars,
                cellVars, flushVars, chanVars, loopVars, awaitVars, otherVars,
                senderVars, bytes, header_len, data_res, frame_res, data_out>>

RxFrame_new_call ==
    /\ rx_built = None
    /\ rx_built' = Some(RxFrame_new_bytes([len |-> header_len], bytes))
    /\ calls' = calls \cup {"RxFrame::new"}
    /\ RxFrameFrame

\* read(): receive0(&mut buffer) took a frame whose payload is `bytes`;
\* RxFrame::new(rx.unwrap(), &buffer)
Read_RxFrame_new ==
    /\ rx_built = None
    /\ Len(bytes) <= DataBytes
    /\ rx_built' = Some(RxFrame_new_bytes([len |-> header_len],
                                          ReceiveBuffer(bytes)))
    /\ calls' = calls \cup {"read"}
    /\ RxFrameFrame

RxFrameInit == FrameInit

RxFrameNext ==
    \/ RxFrame_new_call
    \/ Read_RxFrame_new

RxFrameSpec == RxFrameInit /\ [][RxFrameNext]_vars

---------------------------------------------------------------------------
(* Properties *)

\* a step of the poll closure of write() on the borrowed driver
WriteAttemptStep == wpc = "borrowed" /\ wpc' # "borrowed"

\* mailboxes whose pending frame was replaced in the step
Replaced == {i \in Mailboxes : txbuf[i] # NoFrame /\ txbuf'[i] # txbuf[i]}

\* C1: a write() attempt that puts the frame into a free mailbox completes
\* with None; one that puts it in place of a lower-priority pending frame
\* completes in the same poll with Some(that frame); write() returns Some
\* if and only if a pending frame was evicted.
C1_WriteResult ==
    [][WriteAttemptStep =>
        /\ \A i \in Mailboxes :
              (txbuf[i] = NoFrame /\ txbuf' = [txbuf EXCEPT ![i] = wframe])
                  => (wpc' = "done" /\ wres' = None)
        /\ \A i \in Mailboxes :
              (/\ txbuf[i] # NoFrame
               /\ txbuf[i].id > wframe.id
               /\ txbuf' = [txbuf EXCEPT ![i] = wframe])
                  => (wpc' = "done" /\ wres' = Some(txbuf[i]))
        /\ wpc' = "done" => ((wres' # None) <=> (Replaced # {}))
        /\ wpc' = "done" => (\E i \in Mailboxes : txbuf'[i] = wframe)
    ]_vars

\* C1 witness: a write() has completed with Some(frame), a frame of lower
\* priority than the one written
C1_Witness ==
    /\ wpc = "done"
    /\ wres # None
    /\ wres[1].id > wframe.id
    /\ \E i \in Mailboxes : txbuf[i] = wframe

\* no mailbox can take frame f: all hold a frame of equal or higher priority
AllMailboxesBlocked(buf, f) ==
    \A i \in Mailboxes : buf[i] # NoFrame /\ buf[i].id <= f.id

\* C2: when every mailbox holds a frame of equal or higher priority the
\* write() attempt suspends and changes no mailbox; a suspended write() is
\* eventually polled again and eventually completes.
C2_BackpressureLiveness ==
    /\ [][WriteAttemptStep =>
            /\ AllMailboxesBlocked(txbuf, wframe)
                  => (wpc' = "pending" /\ txbuf' = txbuf)
            /\ wpc' = "pending"
                  => (AllMailboxesBlocked(txbuf, wframe) /\ txbuf' = txbuf)
       ]_vars
    /\ (wpc = "pending") ~> (wpc = "polling")
    /\ (wpc = "pending") ~> (wpc = "done")

\* C2 witness: a write() is suspended, the hardware has since transmitted a
\* frame, and the interrupt handler has woken the writer
C2_Witness ==
    /\ wpc = "pending"
    /\ "W" \in woken
    /\ \E i \in Mailboxes : txbuf[i] = NoFrame

\* a step of the poll closure of read() on the borrowed driver
ReadAttemptStep == rpc = "borrowed" /\ rpc' # "borrowed"

\* no protocol error is indicated by status p
NoErrorIndicated(p) ==
    /\ ~p.bo /\ ~p.ep /\ ~p.ew
    /\ p.lec \in {"NoError", "NoChange"}

\* C3: a read() poll that finds a frame in receive FIFO 0 returns Ok with
\* that frame whatever the protocol status is; Err is returned only by a
\* poll that finds FIFO 0 empty; read() suspends only when FIFO 0 is empty
\* and no error is indicated.
C3_FrameBeforeError ==
    [][ReadAttemptStep =>
        /\ fifo0 # << >> =>
              /\ rpc' = "done"
              /\ rres' = Ok(Head(fifo0))
              /\ fifo0' = Tail(fifo0)
        /\ rres'.kind = "Err" => fifo0 = << >>
        /\ rpc' = "pending" => (fifo0 = << >> /\ NoErrorIndicated(psr))
    ]_vars

\* C3 witness: read() has returned Ok while bus-off is indicated
C3_Witness ==
    /\ rpc = "done"
    /\ rres.kind = "Ok"
    /\ psr.bo

LecErrors == {"Stuff", "Form", "Acknowledge", "BitRecessive", "BitDominant", "Crc"}

\* C4: the error read() reports is BusOff if bus-off is set, else
\* BusPassive if error-passive is set, else BusWarning if error-warning is
\* set; a last-error-code error is reported only when none of the three is
\* set, and read() does not suspend while one of the three is set.
C4_ErrorPriority ==
    /\ rres.kind = "Err" =>
          /\ psr.bo => rres.err = "BusOff"
          /\ (~psr.bo /\ psr.ep) => rres.err = "BusPassive"
          /\ (~psr.bo /\ ~psr.ep /\ psr.ew) => rres.err = "BusWarning"
          /\ rres.err \in LecErrors => (~psr.bo /\ ~psr.ep /\ ~psr.ew)
    /\ rpc = "pending" => (~psr.bo /\ ~psr.ep /\ ~psr.ew)

\* C4 witness: BusOff has been reported while error-passive and a
\* last-error-code were indicated too
C4_Witness ==
    /\ rres.kind = "Err"
    /\ rres.err = "BusOff"
    /\ psr.bo /\ psr.ep
    /\ psr.lec = "CRCError"

\* the decoding of the last-error-code the claim states
LecDecoded(lec) ==
    CASE lec = "StuffError" -> "Stuff"
      [] lec = "FormError"  -> "Form"
      [] lec = "AckError"   -> "Acknowledge"
      [] lec = "Bit0Error"  -> "BitRecessive"
      [] lec = "Bit1Error"  -> "BitDominant"
      [] lec = "CRCError"   -> "Crc"
      [] OTHER              -> "none"

\* C5: with none of bus-off, error-passive, error-warning set, the error
\* read() reports is the decoded last-error-code; with a no-error or
\* no-change code read() on an empty FIFO 0 suspends and reports no error;
\* BusError::Software is never reported.
C5_LecDecoding ==
    /\ [](/\ (rres.kind = "Err" /\ ~psr.bo /\ ~psr.ep /\ ~psr.ew)
                => rres.err = LecDecoded(psr.lec)
          /\ NoErrorIndicated(psr) => rres.kind # "Err"
          /\ rres.err # "Software")
    /\ [][(ReadAttemptStep /\ fifo0 = << >>) =>
            /\ NoErrorIndicated(psr) => (rpc' = "pending" /\ rres' = NoResult)
            /\ (~psr.bo /\ ~psr.ep /\ ~psr.ew /\ ~NoErrorIndicated(psr))
                  => rres' = Err(LecDecoded(psr.lec))
       ]_vars

\* C5 witness: a bit0 last-error-code has been reported as BitRecessive
C5_Witness ==
    /\ rres.kind = "Err"
    /\ rres.err = "BitRecessive"
    /\ psr.lec = "Bit0Error"

\* handles that hold a TxGuard, and handles that hold an RxGuard
LiveSenders == {h \in handles : h.kind \in {"BufferedSender", "Guards"}}
LiveReceivers == {h \in handles : h.kind \in {"BufferedReceiver", "Guards"}}
SenderCount == Count(log, "NotifySenderCreated") - Count(log, "NotifySenderDestroyed")
ReceiverCount ==
    Count(log, "NotifyReceiverCreated") - Count(log, "NotifyReceiverDestroyed")

\* C6: sender-created minus sender-destroyed notifications equals the
\* number of live sender handles, likewise for receivers; the difference
\* is never negative and is 0 once every handle created has been dropped.
C6_GuardCount ==
    /\ SenderCount = Cardinality(LiveSenders)
    /\ ReceiverCount = Cardinality(LiveReceivers)
    /\ SenderCount >= 0 /\ ReceiverCount >= 0
    /\ LiveSenders = {} => SenderCount = 0
    /\ LiveReceivers = {} => ReceiverCount = 0

\* C6 witness: three sender handles, a clone among them, were created and
\* all of them dropped
C6_Witness ==
    /\ handles = {}
    /\ Count(log, "NotifySenderCreated") >= 3
    /\ \E i \in DOMAIN log :
          /\ log[i].op = "NotifySenderCreated"
          /\ log[i].h.kind = "BufferedSender"
          /\ log[i].h.parent # 0

SenderOps == {"NotifySenderCreated", "NotifySenderDestroyed"}
ReceiverOps == {"NotifyReceiverCreated", "NotifyReceiverDestroyed"}
CreatedOp(kind) ==
    IF kind = "BufferedSender" THEN "NotifySenderCreated"
    ELSE "NotifyReceiverCreated"
DestroyedOp(kind) ==
    IF kind = "BufferedSender" THEN "NotifySenderDestroyed"
    ELSE "NotifyReceiverDestroyed"
Buffered == {"BufferedSender", "BufferedReceiver"}

\* C7: a clone of a BufferedSender (BufferedReceiver) issues exactly one
\* created notification, of its own side; a drop issues exactly one
\* destroyed notification of its own side, after the created notification
\* of that handle; an operation on one side leaves the other side's
\* notifications as they are.
C7_CloneAndDropNotify ==
    [][/\ \A h \in handles' \ handles :
              (h.kind \in Buffered /\ h.parent # 0) =>
                  log' = Append(log, [op |-> CreatedOp(h.kind), h |-> h])
       /\ \A h \in handles \ handles' :
              h.kind \in Buffered =>
                  /\ log' = Append(log, [op |-> DestroyedOp(h.kind), h |-> h])
                  /\ \E i \in DOMAIN log :
                        log[i] = [op |-> CreatedOp(h.kind), h |-> h]
       /\ \A h \in (handles' \ handles) \cup (handles \ handles') :
              /\ h.kind = "BufferedSender" =>
                    \A op \in ReceiverOps : Count(log', op) = Count(log, op)
              /\ h.kind = "BufferedReceiver" =>
                    \A op \in SenderOps : Count(log', op) = Count(log, op)
    ]_vars

\* C7 witness: a cloned BufferedSender has been dropped
C7_Witness ==
    \E i \in DOMAIN log :
        /\ log[i].op = "NotifySenderDestroyed"
        /\ log[i].h.kind = "BufferedSender"
        /\ log[i].h.parent # 0

LegalEdges ==
    { <<"PoweredDown", "Config">>,
      <<"InternalLoopback", "Config">>,
      <<"Config", "Normal">>,
      <<"Config", "ExternalLoopback">>,
      <<"Config", "InternalLoopback">> }

\* C8: every change of the operating mode follows one of the five edges;
\* Normal is entered from Config only, and Normal and ExternalLoopback are
\* never left.
C8_ModeEdges ==
    [][/\ mode' # mode => <<mode, mode'>> \in LegalEdges
       /\ (mode' = "Normal" /\ mode # "Normal") => mode = "Config"
       /\ mode \in {"Normal", "ExternalLoopback"} => mode' = mode
    ]_vars

\* C8 witness: the handle has reached Normal and has completed a write() there
C8_Witness ==
    /\ mode = "Normal"
    /\ wpc = "done"

\* C9: a timing that is returned has prescaler * (1 + seg1 + seg2) equal
\* to the integer quotient clock / bitrate, seg1 in 1..16, seg2 in 1..8,
\* prescaler in 1..1024 and sync_jump_width 1.
C9_TimingExact ==
    timing.kind = "Some" =>
        /\ timing.prescaler * (1 + timing.seg1 + timing.seg2)
              = periph_clock \div can_bitrate
        /\ timing.seg1 \in 1..16
        /\ timing.seg2 \in 1..8
        /\ timing.prescaler \in 1..1024
        /\ timing.sync_jump_width = 1

\* C9 witness: a timing with the largest prescaler has been returned
C9_Witness ==
    /\ timing.kind = "Some"
    /\ timing.prescaler = 1024
    /\ timing.seg1 + timing.seg2 = 16

\* the sample point in per mille of a bit timing
SamplePoint(seg1, seg2) == (1000 * (1 + seg1)) \div (1 + seg1 + seg2)

\* C10: a timing that is returned has a sample point of at most 900 per
\* mille; when the round-to-nearest split is above 900 per mille the
\* truncating split is returned.
C10_SamplePointBound ==
    timing.kind = "Some" =>
        /\ SamplePoint(timing.seg1, timing.seg2) <= 900
        /\ LET sum == timing.seg1 + timing.seg2 IN
           SamplePoint(Bs1Nearest(sum), sum - Bs1Nearest(sum)) > 900
              => timing.seg1 = Bs1Truncated(sum)


\* C11 (the claim as stated): a timing is returned only when the clock is
\* exactly bitrate * prescaler * (1 + seg1 + seg2).
C11_ExactBitrate ==
    timing.kind = "Some" =>
        periph_clock =
            can_bitrate * timing.prescaler * (1 + timing.seg1 + timing.seg2)

\* C12: for every clock, a bitrate below 1000 gives no solution.
C12_LowBitrateRefused ==
    (timing # Unset /\ can_bitrate < MIN_BITRATE) => timing = NoSolution

\* C12 witness: a bitrate below 1000 was refused with a clock that is an
\* exact multiple of it by 16 quanta
C12_Witness ==
    /\ timing = NoSolution
    /\ can_bitrate = MIN_BITRATE - 1
    /\ periph_clock = can_bitrate * 16


\* the payload lengths the claims list
AllowedLens == (0..8) \cup {12, 16, 20, 24, 32, 48, 64}

\* C13: Data::new(bytes) succeeds exactly for the lengths 0..8, 12, 16, 20,
\* 24, 32, 48, 64; 9, 10, 11, 13, 65 and every length above 64 are
\* rejected; on success the buffer has 64 bytes, the first len of them are
\* the input and the rest are zero.
C13_DataNew ==
    "Data::new" \in calls =>
        /\ data_res # None <=> Len(bytes) \in AllowedLens
        /\ (Len(bytes) \in {9, 10, 11, 13, 65} \/ Len(bytes) > 64)
              => data_res = None
        /\ data_res # None =>
              /\ Len(data_res[1].bytes) = 64
              /\ \A i \in 1..64 :
                    data_res[1].bytes[i] =
                        IF i <= Len(bytes) THEN bytes[i] ELSE 0

\* C13 witness: a 12-byte slice was accepted and padded with zeros
C13_Witness ==
    /\ "Data::new" \in calls
    /\ Len(bytes) = 12
    /\ data_res # None
    /\ data_res[1].bytes[12] # 0
    /\ data_res[1].bytes[13] = 0

\* C14: TxFrame::new(header, bytes) returns None when bytes is shorter
\* than header.len or its length is not an allowed payload length;
\* otherwise it returns a frame whose data() is the first header.len bytes
\* of the input, and data() does not index past the 64-byte buffer.
C14_TxFrameNew ==
    "TxFrame::new" \in calls =>
        /\ (Len(bytes) < header_len \/ Len(bytes) \notin AllowedLens)
              => frame_res = None
        /\ ~(Len(bytes) < header_len \/ Len(bytes) \notin AllowedLens)
              => /\ frame_res # None
                 /\ "data" \in calls =>
                       /\ data_out # None
                       /\ data_out[1] = SubSeq(bytes, 1, header_len)
        /\ "data" \in calls => data_out # None

\* C14 witness: data() of a frame built from 12 bytes with header.len 11
\* has been taken
C14_Witness ==
    /\ "data" \in calls
    /\ Len(bytes) = 12 /\ header_len = 11
    /\ data_out # None
    /\ Len(data_out[1]) = 11


\* C15: with the write task of FdcanTx, the read task of FdcanRx and the
\* interrupt handlers interleaved, borrow_mut never finds the cell
\* borrowed; a task holds the borrow only inside a poll, never while it is
\* suspended or has returned; no interrupt handler step touches the cell.
C15_ExclusiveBorrow ==
    /\ [](/\ cell # "BorrowMutError"
          /\ wpc # "panicked" /\ rpc # "panicked"
          /\ cell = "W" => (running = "W" /\ wpc = "borrowed")
          /\ cell = "R" => (running = "R" /\ rpc = "borrowed")
          /\ running = "none" => cell = "free")
    /\ [][ir' # ir => cell' = cell]_vars

\* C15 witness: the read task is polled and holds the borrow while the
\* write task is suspended
C15_Witness ==
    /\ cell = "R"
    /\ wpc = "pending"

\* a step of an interrupt handler: only a handler clears interrupt flags
HandlerStep == ir' # ir /\ ir' \subseteq ir
NewlyWoken == woken' \ woken
TxFlagRead == "tc" \in ir \/ "tefn" \in ir
RxFlagRead == "rfn0" \in ir \/ "rfn1" \in ir

\* C17: a handler invocation clears each of tc, tefn, rfn0, rfn1 that is
\* set in the value it reads; a tx flag set signals the tx wake slot, an rx
\* flag set signals the rx wake slot; without an rx flag the rx slot is
\* not signalled and without a tx flag the tx slot is not signalled; no
\* flag that was clear in the value read is changed.
C17_FlagDispatch ==
    [][HandlerStep =>
        /\ \A fl \in {"tc", "tefn", "rfn0", "rfn1"} : fl \in ir => fl \notin ir'
        /\ (TxFlagRead /\ tx_waker # "none") => tx_waker \in woken'
        /\ (RxFlagRead /\ rx_waker # "none") => rx_waker \in woken'
        /\ ~RxFlagRead => (rx_waker' = rx_waker /\ "R" \notin NewlyWoken)
        /\ ~TxFlagRead => (tx_waker' = tx_waker /\ "W" \notin NewlyWoken)
    ]_vars

\* C17 witness: the handler has served tc and rfn0 together and both tasks
\* were woken from their suspension
C17_Witness ==
    /\ woken = {"W", "R"}
    /\ wpc = "pending" /\ rpc = "pending"
    /\ ir = {}

\* C18: a handler invocation that reads ped or pea set clears both and
\* wakes nothing beyond what the tx and rx flags it read call for; the err
\* wake slot is changed by read()'s registration only and the task in it
\* is never woken through it; flags are cleared only by an invocation
\* that an enabled interrupt caused, so IT1 clears none.
C18_ErrorFlagsSilent ==
    [][/\ (HandlerStep /\ ("ped" \in ir \/ "pea" \in ir)) =>
             /\ "ped" \notin ir' /\ "pea" \notin ir'
             /\ NewlyWoken \subseteq
                   (IF TxFlagRead THEN {tx_waker} ELSE {})
                   \cup (IF RxFlagRead THEN {rx_waker} ELSE {})
       /\ err_waker' # err_waker => (rpc = "polling" /\ rpc' = "registered")
       /\ (HandlerStep /\ err_waker = "R" /\ ~(RxFlagRead /\ rx_waker = "R"))
             => "R" \notin NewlyWoken
       /\ HandlerStep => ir \cap EnabledInterrupts # {}
    ]_vars

\* C18 witness: the handler has cleared a protocol-error flag while the
\* read task stayed suspended with its err registration in place
C18_Witness ==
    /\ rpc = "pending"
    /\ err_waker = "R"
    /\ "R" \notin woken
    /\ ir = {}
    /\ tx_waker = "none"


\* a step of the poll closure of flush() past the registration
FlushAttemptStep == fpc = "registered" /\ fpc' # "registered"

\* C16 (the claim as stated): a poll of flush(mb) completes if and only if
\* the transmit request of mailbox mb is not pending at that poll; the
\* other mailboxes have no influence.
C16_FlushCompletion ==
    [][FlushAttemptStep => ((fpc' = "done") <=> (txbuf[fmb] = NoFrame))]_vars


\* items put on the channel so far, items still in it, items returned
ItemsPut == 1..(nextItem - 1)
ItemsQueued == {rx_chan[k] : k \in DOMAIN rx_chan}
ItemsReturned == {rx_got[k].item : k \in DOMAIN rx_got}

\* C19: with any number of BufferedReceiver handles and clones receiving
\* from the channel, no item is returned twice (by one receiver or by
\* two), every item put is either still queued or was returned by one
\* call, and items are returned in the order they were put.
C19_SingleDelivery ==
    /\ \A a, b \in DOMAIN rx_got :
          a # b => rx_got[a].item # rx_got[b].item
    /\ ItemsReturned \cap ItemsQueued = {}
    /\ ItemsReturned \cup ItemsQueued = ItemsPut
    /\ \A a, b \in DOMAIN rx_got : a < b => rx_got[a].item < rx_got[b].item

\* C19 witness: all items were returned, some to a receiver and some to
\* its clone
C19_Witness ==
    /\ ItemsReturned = 1..MaxItems
    /\ \E a, b \in DOMAIN rx_got :
          /\ rx_got[a].h.parent = 0
          /\ rx_got[b].h.parent = rx_got[a].h.id


\* C20: in internal loopback, once write() of the one-byte frame with
\* value V has completed, the read() that follows eventually completes
\* with Ok and a frame whose first data byte is V; every read() that
\* completes returns the value of the current iteration, so the values
\* come back in the order written, and the loop runs to its end.
C20_LoopbackRoundTrip ==
    /\ \A v \in 0..LOOP_LAST :
          (tpc = "writing" /\ wpc = "done" /\ test_i = v)
              ~> (rpc = "done" /\ rres = Ok([id |-> TestId, val |-> v]))
    /\ [](rpc = "done" => rres = Ok([id |-> TestId, val |-> test_i]))
    /\ [](tpc # "panicked")
    /\ <>(tpc = "end")

\* C20 witness: the read() of the sixth iteration has returned the value 5
C20_Witness ==
    /\ tpc = "reading"
    /\ rpc = "done"
    /\ test_i = 5
    /\ rres.kind = "Ok"
    /\ rres.frame.val = 5


\* C21 (the claim as stated): after the three standard-ID and the three
\* extended-ID frames have been written, each of the six read() calls
\* completes with Ok, so the read loop runs to its end.
C21_BothFifosRead ==
    /\ [](tpc # "panicked")
    /\ <>(tpc = "end")

TransmitStep ==
    \E m \in Mailboxes :
        /\ txbuf[m] # NoFrame
        /\ txbuf' = [txbuf EXCEPT ![m] = NoFrame]
\* the caller drops a suspended write() / read()
WriteDropStep == wpc = "pending" /\ wpc' = "idle"
ReadDropStep == rpc = "pending" /\ rpc' = "idle"
\* mailboxes holding frame f
Holding(buf, f) == {m \in Mailboxes : buf[m] = f}

\* C23: the mailboxes are changed only by the peripheral and by the poll
\* in which write() completes, and a frame leaves receive FIFO 0 only in
\* the poll in which read() completes with it; so when a suspended
\* write() is dropped its frame is in no mailbox, and dropping a
\* suspended write() or read() changes nothing of the peripheral, of the
\* RefCell or of the wake slots and leaves the handle ready for the next
\* call.
C23_AbandonSafe ==
    /\ [][/\ txbuf' # txbuf =>
                (TransmitStep \/ (wpc = "borrowed" /\ wpc' = "done"))
          /\ fifo0' # fifo0 =>
                \/ Len(fifo0') = Len(fifo0) + 1
                \/ (rpc = "borrowed" /\ rpc' = "done" /\ rres'.kind = "Ok")
          /\ WriteDropStep =>
                /\ Holding(txbuf, wframe) = {}
                /\ UNCHANGED <<hwVars, tx_waker, err_waker, rx_waker, cellVars>>
                /\ wframe' = NoFrame /\ wres' = None
          /\ ReadDropStep =>
                /\ UNCHANGED <<hwVars, tx_waker, err_waker, rx_waker, cellVars>>
                /\ rres' = NoResult
       ]_vars
    /\ [](wpc \in {"pending", "idle"} /\ rpc \in {"pending", "idle"}
             => (cell = "free" /\ running = "none"))

\* C23 witness: a suspended write() and a suspended read() have been
\* dropped, and a read() called afterwards has completed with a frame
C23_Witness ==
    /\ abandoned = {"W", "R"}
    /\ rpc = "done"
    /\ rres.kind = "Ok"

\* C24: a poll of write() that suspends leaves every mailbox as it was
\* and the poll that completes puts the frame into exactly one mailbox,
\* so the frame is in no mailbox before completion and in at most one
\* after it; a poll of read() that suspends leaves FIFO 0 as it was and
\* the poll that completes with Ok takes exactly its head; each poll's
\* registration leaves the task as the one entry of its wake slots.
C24_SpuriousWakeHarmless ==
    /\ [][/\ WriteAttemptStep =>
                /\ wpc' = "pending" => txbuf' = txbuf
                /\ wpc' = "done" =>
                      /\ Cardinality({m \in Mailboxes : txbuf'[m] # txbuf[m]}) = 1
                      /\ Cardinality(Holding(txbuf', wframe)) = 1
          /\ ReadAttemptStep =>
                /\ rpc' = "pending" => fifo0' = fifo0
                /\ rres'.kind = "Ok" =>
                      (fifo0 # << >> /\ fifo0' = Tail(fifo0))
          /\ (wpc = "polling" /\ wpc' = "registered") => tx_waker' = "W"
          /\ (rpc = "polling" /\ rpc' = "registered") =>
                (rx_waker' = "R" /\ err_waker' = "R")
       ]_vars
    /\ [](/\ wpc \in {"polling", "registered", "borrowed", "pending"}
                => Holding(txbuf, wframe) = {}
          /\ wpc = "done" => Cardinality(Holding(txbuf, wframe)) <= 1)

\* C24 witness: a write() that was woken without cause while suspended
\* and polled again has completed with its frame in one mailbox
C24_Witness ==
    /\ wpc = "done"
    /\ wspur = MaxSpurious
    /\ Cardinality(Holding(txbuf, wframe)) = 1

\* a step of set_bitrate: the bitrate or the calculator's outcome changes
SetBitrateStep == timing' # timing \/ can_bitrate' # can_bitrate

\* C25: the configured bit timing changes only in a set_bitrate on a
\* handle in Config mode, to the timing the calculator returns for the
\* clock and the bitrate; a set_bitrate for which the calculator returns
\* no timing leaves the configured bit timing as it was and aborts the
\* program, which takes no further step.
C25_SetBitrate ==
    [][/\ ~Aborted
       /\ nbtp' # nbtp => SetBitrateStep
       /\ SetBitrateStep =>
             /\ mode = "Config" /\ mode' = mode
             /\ LET bt == calc_fdcan_timings(periph_clock, can_bitrate') IN
                   /\ bt.kind = "Some" => (nbtp' = bt /\ ~Aborted')
                   /\ bt.kind # "Some" => (nbtp' = nbtp /\ Aborted')
    ]_vars

\* C25 witness: a set_bitrate installed a timing, and a later one, for a
\* bitrate without solution, aborted and left that timing in place
C25_Witness ==
    /\ nbtp.kind = "Some"
    /\ timing = NoSolution
    /\ can_bitrate = MIN_BITRATE - 1

\* C26: whatever the protocol status is, a poll of write() suspends only
\* when no mailbox can take the frame, and with a usable mailbox it
\* completes with the frame pending in a mailbox; write() changes nothing
\* of the protocol status and completes with None or Some(frame), never
\* with an error.
C26_WriteIgnoresBusErrors ==
    /\ [][WriteAttemptStep =>
            /\ wpc' \in {"done", "pending"}
            /\ wpc' = "pending" => AllMailboxesBlocked(txbuf, wframe)
            /\ ~AllMailboxesBlocked(txbuf, wframe) =>
                  /\ wpc' = "done"
                  /\ Holding(txbuf', wframe) # {}
            /\ psr' = psr
       ]_vars
    /\ [](wpc = "done" => (wres = None \/ wres \in {Some(f) : f \in Frames}))

\* C26 witness: a write() has completed while bus-off and error-passive
\* are indicated; its frame is pending in a mailbox
C26_Witness ==
    /\ wpc = "done"
    /\ psr.bo /\ psr.ep
    /\ Holding(txbuf, wframe) # {}

\* the condition a suspended write(), flush(), read() waits for holds
WriteReady == ~AllMailboxesBlocked(txbuf, wframe)
FlushReady == FlushOutcome(txbuf, fmb) = {"done"}
ReadReady == fifo0 # << >>

\* C27: in a poll the task is in its wake slot (or has been woken through
\* it) from the registration on, the check included, and a suspended
\* task stays so; a task is never suspended with its condition holding,
\* the interrupt of the change served and no wake delivered; and once the
\* condition of a suspended task holds the task is polled again.
C27_NoLostWakeup ==
    /\ [](/\ wpc \in {"registered", "borrowed", "pending"}
                => (tx_waker = "W" \/ "W" \in woken)
          /\ fpc \in {"registered", "pending"}
                => (tx_waker = "F" \/ "F" \in woken)
          /\ rpc \in {"registered", "borrowed", "pending"}
                => (rx_waker = "R" \/ "R" \in woken)
          /\ (wpc = "pending" /\ WriteReady) => ("tc" \in ir \/ "W" \in woken)
          /\ (fpc = "pending" /\ FlushReady) => ("tc" \in ir \/ "F" \in woken)
          /\ (rpc = "pending" /\ ReadReady) => ("rfn0" \in ir \/ "R" \in woken))
    /\ ((wpc = "pending" /\ WriteReady) ~> (wpc = "polling"))
    /\ ((fpc = "pending" /\ FlushReady) ~> (fpc = "polling"))
    /\ ((rpc = "pending" /\ ReadReady) ~> (rpc = "polling"))

\* C27 witness: the handler ran between the registration and the failed
\* check of a poll of write() and took the waker; the task was suspended
\* with the wake delivered and no registration left
C27_Witness ==
    /\ wpc = "pending"
    /\ AllMailboxesBlocked(txbuf, wframe)
    /\ tx_waker = "none"
    /\ "W" \in woken
    /\ ir = {}

\* C28 (the claim as stated): calc_fdcan_timings is total: for every clock
\* and bitrate its outcome is a timing or no solution, never an abort.
C28_CalcTotal ==
    timing # Unset => timing.kind \in {"Some", "None"}

\* the quanta sums above 2 whose successor divides clock / bitrate
DividingSums(clock, bitrate) ==
    {sum \in 3..((IF bitrate >= FAST_BITRATE THEN MAX_QUANTA_FAST
                                              ELSE MAX_QUANTA_SLOW) - 1) :
        (clock \div bitrate) % (1 + sum) = 0}
Largest(S) == CHOOSE x \in S : \A y \in S : y <= x

\* C29 (the claim as stated): with at most 10 quanta per bit from
\* 1,000,000 bit/s on and 17 below, a returned timing has the largest
\* quanta sum whose successor divides clock / bitrate; no solution is
\* reported when no sum above 2 divides and when the prescaler of the
\* largest dividing sum is outside 1..1024.
C29_QuantaSearch ==
    (timing # Unset /\ can_bitrate >= MIN_BITRATE) =>
        LET S == DividingSums(periph_clock, can_bitrate)
            q == periph_clock \div can_bitrate
        IN  /\ timing.kind = "Some" =>
                  /\ S # {}
                  /\ timing.seg1 + timing.seg2 = Largest(S)
                  /\ timing.prescaler = q \div (1 + Largest(S))
            /\ S = {} => timing = NoSolution
            /\ (S # {} /\ (q \div (1 + Largest(S))) \notin 1..1024)
                  => timing = NoSolution

\* C30: the frame rebuilt from the words of a mailbox always exists and
\* has the header of the frame that was written; when the words handed
\* cover the header's length, its data() is the first header.len bytes of
\* the payload the frame was built from.
C30_FaithfulReconstruction ==
    "from_preserved" \in calls =>
        /\ preserved # None
        /\ preserved[1].header = frame_res[1].header
        /\ ("preserved.data" \in calls /\ 4 * Len(data32) >= header_len)
              => data_out = Some(SubSeq(bytes, 1, header_len))

\* C30 witness: a frame of 64 bytes was rebuilt from 16 words and its
\* data() is the payload written
C30_Witness ==
    /\ "preserved.data" \in calls
    /\ header_len = DataBytes
    /\ Len(data32) = DataWords
    /\ data_out = Some(bytes)

\* C31 (the claim as stated): every frame TxFrame::new returns has a
\* header.len, and a data() length, in the allowed set; a header.len
\* outside the set is rejected whatever the length of the slice.
C31_AllowedHeaderLen ==
    "TxFrame::new" \in calls =>
        /\ frame_res # None =>
              /\ frame_res[1].header.len \in AllowedLens
              /\ ("data" \in calls /\ data_out # None)
                    => Len(data_out[1]) \in AllowedLens
        /\ header_len \notin AllowedLens => frame_res = None

\* C32: RxFrame::new always returns a frame with the header it was given;
\* its payload is the input bytes (padded with zeros) for a slice of
\* allowed length and all zeros for a slice of any other length; the
\* frame read() builds always carries the bytes receive0 wrote.
C32_RxFrameNew ==
    /\ "RxFrame::new" \in calls =>
          /\ rx_built # None
          /\ rx_built[1].header = [len |-> header_len]
          /\ Len(bytes) \in AllowedLens =>
                rx_built[1].data.bytes = ReceiveBuffer(bytes)
          /\ Len(bytes) \notin AllowedLens => rx_built[1].data = Data_empty
    /\ "read" \in calls =>
          /\ rx_built # None
          /\ rx_built[1].header = [len |-> header_len]
          /\ rx_built[1].data.bytes = ReceiveBuffer(bytes)

\* C32 witness: RxFrame::new was given a slice of 9 bytes, none of them
\* zero, and returned the empty payload under the header
C32_Witness ==
    /\ "RxFrame::new" \in calls
    /\ Len(bytes) = 9
    /\ header_len = 9
    /\ rx_built = Some([header |-> [len |-> 9], data |-> Data_empty])

\* a call of try_write, a poll of write(), a drop of its future
TryWriteStep ==
    /\ bs_pc' = bs_pc
    /\ \/ try_frame' # try_frame
       \/ try_res' # try_res
       \/ Len(tx_chan') > Len(tx_chan)
BsPollStep == bs_pc = "polling" /\ bs_pc' # "polling"
BsDropStep == bs_pc = "pending" /\ bs_pc' = "idle"

\* enqueues and callbacks come in pairs, the enqueue first
Paired(events) ==
    /\ Len(events) % 2 = 0
    /\ \A i \in 1..Len(events) :
          events[i] = (IF i % 2 = 1 THEN "send" ELSE "tx_waker")

\* C33: try_write on a channel with room puts the frame last, calls the
\* callback once after that and returns Ok; on a full channel it returns
\* the error with the frame, changes nothing and calls nothing. A poll
\* of write() that enqueues calls the callback after it, one that
\* suspends, and a drop of the suspended future, do neither. Every
\* enqueue is followed by one callback and no callback comes without one.
C33_SenderCallback ==
    /\ [](Paired(tx_events))
    /\ [][TryWriteStep =>
            IF Len(tx_chan) < MaxChan
            THEN /\ tx_chan' = Append(tx_chan, try_frame')
                 /\ tx_events' = tx_events \o <<"send", "tx_waker">>
                 /\ try_res' = TryOk
            ELSE /\ tx_chan' = tx_chan
                 /\ tx_events' = tx_events
                 /\ try_res' = TryFull(try_frame')]_vars
    /\ [][BsPollStep =>
            IF Len(tx_chan) < MaxChan
            THEN /\ tx_chan' = Append(tx_chan, bs_frame)
                 /\ tx_events' = tx_events \o <<"send", "tx_waker">>
                 /\ bs_pc' = "done"
            ELSE /\ tx_chan' = tx_chan
                 /\ tx_events' = tx_events
                 /\ bs_pc' = "pending"]_vars
    /\ [][BsDropStep => (tx_chan' = tx_chan /\ tx_events' = tx_events)]_vars

\* C33 witness: try_write has been refused on a full channel after a
\* write() and a try_write enqueued their frames
C33_Witness ==
    /\ try_res.kind = "Full"
    /\ try_res.frame = try_frame
    /\ Len(tx_chan) = MaxChan
    /\ tx_events = <<"send", "tx_waker", "send", "tx_waker">>
    /\ bs_pc = "done"

\* C34 (the claim as stated): with a flush() and a write() of two tasks
\* suspended on the one tx wake slot, the registration of neither is
\* lost, and each is polled again once its condition holds.
C34_SharedSlot ==
    /\ [](fpc = "pending" => (tx_waker = "F" \/ "F" \in woken))
    /\ [](wpc = "pending" => (tx_waker = "W" \/ "W" \in woken))
    /\ ((fpc = "pending" /\ FlushReady) ~> (fpc # "pending"))
    /\ ((wpc = "pending" /\ WriteReady) ~> (wpc # "pending"))

\* C35 (the claim as stated): a read() that is suspended while the
\* protocol status indicates bus-off, error-passive or error-warning is
\* polled again, whether or not a frame arrives.
C35_ErrorWakesRead ==
    (rpc = "pending" /\ curr_error(psr) # None) ~> (rpc # "pending")

=============================================================================
